---------------------------- MODULE Spec2Model ----------------------------
(***************************************************************************)
(* SPARTN transport-layer reader (pyspartn SPARTNReader), both variants of *)
(* spartnreader.py: the later one (src/src/pyspartn/spartnreader.py) and   *)
(* the earlier one (src/pyspartn/spartnreader.py).                         *)
(*                                                                         *)
(* Bytes are integers 0..255, byte strings are sequences of bytes.  The    *)
(* byte source is a sequence `stream' with a read position `pos'.          *)
(***************************************************************************)
EXTENDS Integers, Sequences, FiniteSets, TLC

VARIABLES
    stream,        \* the bytes of the source (self._stream), fixed after Init
    pos,           \* number of bytes already pulled from the source
    variant,       \* "later" or "earlier": which spartnreader.py is running
    validate,      \* self._validate
    quitonerror,   \* self._quitonerror
    errorhandler,  \* TRUE iff self._errorhandler is not None
    decrypt,       \* self._decrypt
    key,           \* self._key
    result,        \* outcome of the last call: what the caller got (kind, raw,
                   \* parsed), the source offsets the call pulled (from, end]
                   \* and the offset `start' where its last frame began
    trace,         \* what the last call did: errors met, frames interpreted
    log,           \* error texts passed to the error handler so far
    stdout,        \* error texts printed so far
    hist,          \* outcomes of all calls so far, oldest first
    stopped,       \* TRUE once __next__ has raised StopIteration
    gen,           \* the generator of iterate(): "none", "active", "finished"
    kwargs,        \* the options iterate() was called with: quitonerror (the
                   \* empty set if not given, else {value}) and errorhandler
                   \* (TRUE iff given and not None)
    driver,        \* how the caller drives the reader: "none" before the first
                   \* call, then "read", "next" or "iterate"; "no reader" if
                   \* the constructor raised
    ctor,          \* what the constructor was given: the decrypt and key
                   \* options and the MQTTKEY environment variable
    reparsed,      \* outcome of SPARTNReader.parse(raw) on the frame the last
                   \* call returned, once the caller has asked for it
    store,         \* the objects at work when two reader instances are made:
                   \* the attributes of the class SPARTNReader, those of each
                   \* instance, the stream objects, what each constructor
                   \* was given and the outcomes of each instance's calls
    walk,          \* position of a walk over one payload schema in declaration
                   \* order, with the plain fields declared so far per scope
    chunks         \* how the stream was put together (never read by the reader)

vars == <<stream, pos, variant, validate, quitonerror, errorhandler, decrypt,
          key, result, trace, log, stdout, hist, stopped, gen, kwargs, driver,
          ctor, reparsed, store, walk, chunks>>

(***************************************************************************)
(* Bounds of the model.                                                    *)
(***************************************************************************)
\* Streams are concatenations of at most MaxChunks chunks.
MaxChunks == 2
\* At most MaxCalls calls of read() / __next__() are made on one reader.
MaxCalls == 3

(***************************************************************************)
(* Program constants (pyspartn.spartntypes_core, imported by the reader).  *)
(***************************************************************************)
SPARTN_PREB == 115      \* b"s" = 0x73
VALCRC == 1
ERRLOG == 1
ERRRAISE == 2
None == "None"

(***************************************************************************)
(* Arithmetic helpers.                                                     *)
(***************************************************************************)
Min(a, b) == IF a < b THEN a ELSE b

\* Sequences built by a function constructor are normalised to tuples by
\* concatenation with the empty sequence (the value is unchanged).
Tup(f) == f \o <<>>

\* n copies of b.
Fill(n, b) == Tup([i \in 1..n |-> b])

RECURSIVE Pow2(_)
Pow2(n) == IF n = 0 THEN 1 ELSE 2 * Pow2(n - 1)

\* v & m for m a power of two minus one is v % (m+1); the reader only ever
\* masks with VALCRC = 1.
BitAnd1(v) == v % 2

\* The w-bit big-endian binary numeral of v, most significant bit first.
IntToBits(v, w) == Tup([i \in 1..w |-> (v \div Pow2(w - i)) % 2])

RECURSIVE BitsToInt(_)
BitsToInt(bits) ==
    IF bits = <<>> THEN 0
    ELSE 2 * BitsToInt(SubSeq(bits, 1, Len(bits) - 1)) + bits[Len(bits)]

\* Bytes as bits, MSB first within each byte, and back.
BytesToBits(b) ==
    Tup([i \in 1..(8 * Len(b)) |->
            (b[((i - 1) \div 8) + 1] \div Pow2(7 - ((i - 1) % 8))) % 2])

BitsToBytes(bits) ==
    Tup([k \in 1..(Len(bits) \div 8) |->
            BitsToInt(SubSeq(bits, 8 * (k - 1) + 1, 8 * k))])

RECURSIVE Concat(_)
Concat(ss) == IF ss = <<>> THEN <<>> ELSE Head(ss) \o Concat(Tail(ss))

\* The sum of the bytes of b.
RECURSIVE SumBytes(_)
SumBytes(b) == IF b = <<>> THEN 0 ELSE Head(b) + SumBytes(Tail(b))

(***************************************************************************)
(* pyspartn.spartnhelpers.bitsval: the unsigned integer held in `length'   *)
(* bits of `bitfield' starting at bit `position', MSB first.               *)
(***************************************************************************)
BitAt(bitfield, i) == (bitfield[(i \div 8) + 1] \div Pow2(7 - (i % 8))) % 2

bitsval(bitfield, position, length) ==
    BitsToInt(Tup([k \in 1..length |-> BitAt(bitfield, position + k - 1)]))

(***************************************************************************)
(* Unbounded integers.  int.from_bytes(b, "big") of up to four bytes does  *)
(* not fit the model checker's integers, so an unsigned integer is held as *)
(* its base-256 numeral without leading zeros (0 is the empty numeral).    *)
(***************************************************************************)
RECURSIVE StripZeros(_)
StripZeros(b) ==
    IF b = <<>> THEN <<>>
    ELSE IF Head(b) = 0 THEN StripZeros(Tail(b)) ELSE b

int_from_bytes_big(b) == StripZeros(b)

(***************************************************************************)
(* CRC (pyspartn.spartnhelpers.valid_crc), bit-serial.                     *)
(*   crcType 0: CRC-8      poly 0x07       init 0                          *)
(*   crcType 1: CRC-16     poly 0x1021     init 0                          *)
(*   crcType 2: CRC-24Q    poly 0x864CFB   init 0                          *)
(*   crcType 3: CRC-32     poly 0x04C11DB7 reflected, init and xor-out all *)
(*              ones                                                       *)
(***************************************************************************)
CrcWidth(crcType) == 8 * (crcType + 1)

CrcPoly(crcType) ==
    CASE crcType = 0 -> IntToBits(7, 8)
      [] crcType = 1 -> IntToBits(4129, 16)
      [] crcType = 2 -> IntToBits(8801531, 24)
      [] crcType = 3 -> IntToBits(0, 4) \o IntToBits(79764919, 28)

XorBits(a, b) == Tup([i \in 1..Len(a) |-> (a[i] + b[i]) % 2])

\* One step of the shift register: feed input bit `bit' into `reg'.
CrcStep(reg, bit, poly) ==
    IF (reg[1] + bit) % 2 = 1
    THEN XorBits(Tail(reg) \o <<0>>, poly)
    ELSE Tail(reg) \o <<0>>

\* The register after feeding bits[lo..hi] in order, lo <= hi.  The range is
\* split in halves and the intermediate register is bound as a value (the
\* element of a singleton set), so that it is computed once.
RECURSIVE CrcFeed(_, _, _, _, _)
CrcFeed(reg, bits, poly, lo, hi) ==
    IF lo = hi THEN CrcStep(reg, bits[lo], poly)
    ELSE LET mid == (lo + hi) \div 2
         IN  CHOOSE r \in { CrcFeed(x, bits, poly, mid + 1, hi) :
                            x \in {CrcFeed(reg, bits, poly, lo, mid)} } : TRUE

Reverse(s) == Tup([i \in 1..Len(s) |-> s[Len(s) + 1 - i]])

\* The bits of the message with every byte reflected (LSB first).
ReflectBytes(bits) ==
    Tup([i \in 1..Len(bits) |-> bits[8 * ((i - 1) \div 8) + 8 - ((i - 1) % 8)]])

\* The register after the whole message, from register `init'.
CrcRun(init, bits, poly) ==
    IF bits = <<>> THEN init ELSE CrcFeed(init, bits, poly, 1, Len(bits))

\* The CRC of msg, as bits MSB first.
CrcBits(msg, crcType) ==
    LET w == CrcWidth(crcType)
    IN  CHOOSE r \in
          { IF crcType = 3
            THEN XorBits(Reverse(CrcRun(Fill(w, 1), ReflectBytes(bits), poly)), Fill(w, 1))
            ELSE CrcRun(Fill(w, 0), bits, poly) :
            bits \in {BytesToBits(msg)}, poly \in {CrcPoly(crcType)} } : TRUE

\* The CRC as the crcType+1 bytes that trail a frame.
CrcBytes(msg, crcType) == BitsToBytes(CrcBits(msg, crcType))

valid_crc(msg, crc, crcType) == crc = int_from_bytes_big(CrcBytes(msg, crcType))


(***************************************************************************)
(* Python values handed to the caller: None, bytes, str and SPARTNMessage. *)
(***************************************************************************)
PyNone == [type |-> "NoneType", v |-> <<>>]
PyBytes(b) == [type |-> "bytes", v |-> b]
PyStr(text) == [type |-> "str", v |-> text]
PyMessage(rec) == [type |-> "SPARTNMessage", v |-> rec]

(***************************************************************************)
(* The payload interpreter, pyspartn.spartnmessage.SPARTNMessage: it       *)
(* identifies the message by (msgType, msgSubtype) and fails with          *)
(* SPARTNMessageError on an unknown identity.  The identities are those of *)
(* SPARTN_PAYLOADS_GET: OCB and HPAC for five constellations, GAD, BPAC,   *)
(* EAS-DYN and EAS-GRP.                                                    *)
(***************************************************************************)
KnownIdentity(msgType, msgSubtype) ==
    \/ msgType \in {0, 1} /\ msgSubtype \in 0..4
    \/ msgType \in {2, 3} /\ msgSubtype = 0
    \/ msgType = 4 /\ msgSubtype \in 0..1

\* Length in bytes of the payload descriptor (transport layout).
PayDescLen(eaf, timeTagtype) == 4 + 2 * timeTagtype + 2 * eaf

\* Keys: 128 bits as hexadecimal strings.
KeyA == "6b30302427df05b4d98911ebff32147f"
KeyB == "bc75cdd919406d61c3df9e26c2f7e77a"

\* Bitwise exclusive or of two bytes.
XorByte(a, b) == BitsToInt(XorBits(IntToBits(a, 8), IntToBits(b, 8)))

\* The payload decryptor (AES-128 in counter mode) in outline: byte i of
\* the payload is combined by exclusive or with byte i of a keystream
\* which the key and the initial counter determine; the initial counter is
\* made from the header of the frame.  A keystream byte may have any
\* value, zero included, so that decrypting need not change a given byte.
InitialCounter(header) == SumBytes(header)
KeySeed(k) == IF k = KeyA THEN 90 ELSE 165
KeyStreamByte(k, counter, i) == (KeySeed(k) + 7 * counter + 13 * i) % 256
decrypt_payload(payload, k, counter) ==
    Tup([i \in 1..Len(payload) |-> XorByte(payload[i], KeyStreamByte(k, counter, i))])

\* SPARTNMessage(transport=..., decrypt=..., key=..., validate=...): the
\* record, or the error raised.  With validate=VALCRC the trailing CRC of
\* the frame is checked against the bytes between the preamble and the
\* CRC.  The payload of a frame with eaf=1 is decrypted first if decrypt
\* is set, and interpreted unchanged otherwise.
SPARTNMessage(transport, dec, k, val) ==
    LET msgType == bitsval(transport, 8, 7)
        nData == bitsval(transport, 15, 10)
        eaf == bitsval(transport, 25, 1)
        crcType == bitsval(transport, 26, 2)
        msgSubtype == bitsval(transport, 32, 4)
        timeTagtype == bitsval(transport, 36, 1)
        off == 4 + PayDescLen(eaf, timeTagtype)
        payload == SubSeq(transport, off + 1, off + nData)
        core == SubSeq(transport, 2, Len(transport) - (crcType + 1))
        crc == int_from_bytes_big(SubSeq(transport, Len(transport) - crcType,
                                         Len(transport)))
    IN  IF BitAnd1(val) # 0 /\ ~valid_crc(core, crc, crcType)
        THEN [ok |-> FALSE, value |-> PyStr(<<"Invalid CRC", crc>>)]
        ELSE IF ~KnownIdentity(msgType, msgSubtype)
        THEN [ok |-> FALSE,
              value |-> PyStr(<<"Unknown message identity", <<msgType, msgSubtype>> >>)]
        ELSE IF eaf = 1 /\ dec /\ k = None
        THEN [ok |-> FALSE, value |-> PyStr(<<"Decryption failure", <<msgType, msgSubtype>> >>)]
        ELSE [ok |-> TRUE,
              value |-> PyMessage([identity |-> <<msgType, msgSubtype>>,
                                   eaf |-> eaf,
                                   payload |-> IF eaf = 1 /\ dec
                                               THEN decrypt_payload(
                                                        payload, k,
                                                        InitialCounter(SubSeq(transport, 2, off)))
                                               ELSE payload])]

(***************************************************************************)
(* The later reader, src/src/pyspartn/spartnreader.py.                     *)
(* `self' is the record of the reader's configuration attributes.          *)
(***************************************************************************)
\* self._stream.read(size) followed by the EOF test of _read_bytes: the
\* bytes pulled, the new position, and whether EOFError is raised.
read_bytes(s, p, size) ==
    LET data == SubSeq(s, p + 1, Min(p + size, Len(s)))
    IN  [eof |-> Len(data) < size, data |-> data, pos |-> p + Len(data)]

\* aln_later as the earlier reader computes it.
aln_later_linear(embAuthLen) == (embAuthLen + 1) * 8

\* aln_later with a length for the reserved codes 5 to 7 as well.
aln_later_reserved(embAuthLen) ==
    CASE embAuthLen = 0 -> 8
      [] embAuthLen = 1 -> 12
      [] embAuthLen = 2 -> 16
      [] embAuthLen = 3 -> 32
      [] embAuthLen = 4 -> 64
      [] OTHER -> 24

\* Lines 174-186: the embedded authentication length.
aln_later(embAuthLen) ==
    CASE embAuthLen = 0 -> 8
      [] embAuthLen = 1 -> 12
      [] embAuthLen = 2 -> 16
      [] embAuthLen = 3 -> 32
      [] embAuthLen = 4 -> 64
      [] OTHER -> 0

\* SPARTNReader.parse (static): SPARTNMessage on the raw frame.
parse(message, val, dec, k) == SPARTNMessage(message, dec, k, val)

\* The parts of a frame as _parse_spartn pulled them: the payload
\* descriptor, the lengths of payload, embedded authentication data and
\* CRC, and the authInd and embAuthLen it read.
NoParts ==
    [payDesc |-> <<>>, payload |-> 0, embAuth |-> 0, crc |-> 0, authInd |-> 0,
     embAuthLen |-> 0, reads |-> {}]

\* What _parse_spartn leaves when EOFError escapes it in framing state `at'.
ParseEof(p, at) ==
    [status |-> "eof", pos |-> p, at |-> at, raw |-> <<>>, core |-> <<>>,
     crcb |-> <<>>, value |-> PyNone, handed |-> FALSE, parts |-> NoParts]

\* Outcome r of _parse_spartn on a frame pulled whole, with its parts.
Pulled(r, payDesc, payload, embAuth, authInd, embAuthLen) ==
    [status |-> r.status, pos |-> r.pos, at |-> r.at, raw |-> r.raw,
     core |-> r.core, crcb |-> r.crcb, value |-> r.value, handed |-> r.handed,
     parts |-> [payDesc |-> payDesc, payload |-> Len(payload),
                embAuth |-> Len(embAuth), crc |-> Len(r.crcb),
                authInd |-> authInd, embAuthLen |-> embAuthLen, reads |-> {}]]

\* A header field as bitsval is asked for it: <<position, length>>.  Get is
\* the call of bitsval on buffer buf; Reads notes, for the fields `names' of
\* table tab, where they were extracted and how many bits buf held then.
Get(buf, f) == bitsval(buf, f[1], f[2])

Reads(buf, tab, names) ==
    { [field |-> n, at |-> tab[n][1], width |-> tab[n][2], of |-> 8 * Len(buf)] :
      n \in names }

\* Outcome r of _parse_spartn with the extractions rs noted.
WithReads(r, rs) == [r EXCEPT !.parts.reads = @ \cup rs]

\* framestart_later with nData taken from the second byte on.
framestart_later_bytewise ==
    [nData |-> <<8, 10>>, eaf |-> <<17, 1>>, crcType |-> <<18, 2>>]

\* Lines 150-154: the fields of framestart the later reader extracts.
framestart_later ==
    [nData |-> <<7, 10>>, eaf |-> <<17, 1>>, crcType |-> <<18, 2>>]

\* Lines 158-170: the fields of payDesc the later reader extracts;
\* timeTagtype from the first 4 bytes, authInd and embAuthLen if eaf.
paydesc_later(gtlen) ==
    [timeTagtype |-> <<4, 1>>, authInd |-> <<gtlen + 26, 3>>,
     embAuthLen |-> <<gtlen + 29, 3>>]

\* Lines 127-131 of the earlier reader: the fields of framestart.
framestart_earlier ==
    [msgType |-> <<0, 7>>, nData |-> <<7, 10>>, eaf |-> <<17, 1>>,
     crcType |-> <<18, 2>>, frameCrc |-> <<20, 4>>]

\* Lines 135-147 of the earlier reader: the fields of payDesc; msgSubtype
\* and timeTagtype from the first pln bytes, authInd and embAuthLen if eaf.
paydesc_earlier(gtlen, bitpos) ==
    [msgSubtype |-> <<0, 4>>, timeTagtype |-> <<4, 1>>, gnssTimeTag |-> <<5, gtlen>>,
     authInd |-> <<bitpos + 21, 3>>, embAuthLen |-> <<bitpos + 24, 3>>]

\* check_and_parse asking for decryption whatever the reader's options are.
check_and_parse_decrypting(self, preamble, core, crcb, crcType, p) ==
    LET crc == int_from_bytes_big(crcb)
        raw_data == preamble \o core \o crcb
    IN  IF BitAnd1(self.validate) # 0 /\ ~valid_crc(core, crc, crcType)
        THEN [status |-> "error", pos |-> p, at |-> "CRC", raw |-> raw_data,
              core |-> core, crcb |-> crcb,
              value |-> PyStr(<<"Invalid CRC", crc>>), handed |-> FALSE]
        ELSE LET m == parse(raw_data, self.validate, TRUE, KeyA)
             IN  [status |-> IF m.ok THEN "ok" ELSE "error", pos |-> p,
                  at |-> "EMIT", raw |-> raw_data, core |-> core, crcb |-> crcb,
                  value |-> m.value, handed |-> TRUE]

\* check_and_parse without the CRC check, as if validate were 0.
check_and_parse_unchecked(self, preamble, core, crcb, crcType, p) ==
    LET raw_data == preamble \o core \o crcb
        m == parse(raw_data, 0, self.decrypt, self.key)
    IN  [status |-> IF m.ok THEN "ok" ELSE "error", pos |-> p,
         at |-> "EMIT", raw |-> raw_data, core |-> core, crcb |-> crcb,
         value |-> m.value, handed |-> TRUE]

\* check_and_parse with the CRC computed over the preamble as well.
check_and_parse_preamble(self, preamble, core, crcb, crcType, p) ==
    LET crc == int_from_bytes_big(crcb)
        raw_data == preamble \o core \o crcb
    IN  IF BitAnd1(self.validate) # 0 /\ ~valid_crc(preamble \o core, crc, crcType)
        THEN [status |-> "error", pos |-> p, at |-> "CRC", raw |-> raw_data,
              core |-> core, crcb |-> crcb,
              value |-> PyStr(<<"Invalid CRC", crc>>), handed |-> FALSE]
        ELSE LET m == parse(raw_data, self.validate, self.decrypt, self.key)
             IN  [status |-> IF m.ok THEN "ok" ELSE "error", pos |-> p,
                  at |-> "EMIT", raw |-> raw_data, core |-> core, crcb |-> crcb,
                  value |-> m.value, handed |-> TRUE]

\* check_and_parse leaving the preamble out of raw_data.
check_and_parse_nopreamble(self, preamble, core, crcb, crcType, p) ==
    LET crc == int_from_bytes_big(crcb)
        raw_data == core \o crcb
    IN  IF BitAnd1(self.validate) # 0 /\ ~valid_crc(core, crc, crcType)
        THEN [status |-> "error", pos |-> p, at |-> "CRC", raw |-> raw_data,
              core |-> core, crcb |-> crcb,
              value |-> PyStr(<<"Invalid CRC", crc>>), handed |-> FALSE]
        ELSE LET m == parse(preamble \o raw_data, self.validate, self.decrypt, self.key)
             IN  [status |-> IF m.ok THEN "ok" ELSE "error", pos |-> p,
                  at |-> "EMIT", raw |-> raw_data, core |-> core, crcb |-> crcb,
                  value |-> m.value, handed |-> TRUE]

\* check_and_parse taking the CRC bytes as a little-endian integer.
check_and_parse_little(self, preamble, core, crcb, crcType, p) ==
    LET crc == int_from_bytes_big(Reverse(crcb))
        raw_data == preamble \o core \o crcb
    IN  IF BitAnd1(self.validate) # 0 /\ ~valid_crc(core, crc, crcType)
        THEN [status |-> "error", pos |-> p, at |-> "CRC", raw |-> raw_data,
              core |-> core, crcb |-> crcb,
              value |-> PyStr(<<"Invalid CRC", crc>>), handed |-> FALSE]
        ELSE LET m == parse(raw_data, self.validate, self.decrypt, self.key)
             IN  [status |-> IF m.ok THEN "ok" ELSE "error", pos |-> p,
                  at |-> "EMIT", raw |-> raw_data, core |-> core, crcb |-> crcb,
                  value |-> m.value, handed |-> TRUE]

\* Lines 191-201 of _parse_spartn: the CRC check and the interpretation.
check_and_parse(self, preamble, core, crcb, crcType, p) ==
    LET crc == int_from_bytes_big(crcb)
        raw_data == preamble \o core \o crcb
    IN  IF BitAnd1(self.validate) # 0 /\ ~valid_crc(core, crc, crcType)
        THEN [status |-> "error", pos |-> p, at |-> "CRC", raw |-> raw_data,
              core |-> core, crcb |-> crcb,
              value |-> PyStr(<<"Invalid CRC", crc>>), handed |-> FALSE]
        ELSE LET m == parse(raw_data, self.validate, self.decrypt, self.key)
             IN  [status |-> IF m.ok THEN "ok" ELSE "error", pos |-> p,
                  at |-> "EMIT", raw |-> raw_data, core |-> core, crcb |-> crcb,
                  value |-> m.value, handed |-> TRUE]

\* embauth_present taking authInd=1 for embedded authentication as well.
embauth_present_any(authInd) == authInd > 0

\* Line 173: embedded authentication data follows the payload iff authInd > 1.
embauth_present(authInd) == authInd > 1

\* Lines 172-189: payload, embedded authentication data and CRC bytes.
parse_tail(self, s, p, preamble, framestart, payDesc, nData, crcType, authInd, embAuthLen) ==
    LET r3 == read_bytes(s, p, nData)
    IN  IF r3.eof THEN ParseEof(r3.pos, "READ_PAYLOAD") ELSE
        LET payload == r3.data
            r4 == IF embauth_present(authInd)
                  THEN read_bytes(s, r3.pos, aln_later(embAuthLen))
                  ELSE [eof |-> FALSE, data |-> <<>>, pos |-> r3.pos]
        IN  IF r4.eof THEN ParseEof(r4.pos, "READ_EMBAUTH") ELSE
            LET embAuth == r4.data
                r5 == read_bytes(s, r4.pos, crcType + 1)
            IN  IF r5.eof THEN ParseEof(r5.pos, "READ_CRC") ELSE
                Pulled(check_and_parse(self, preamble,
                                       framestart \o payDesc \o payload \o embAuth,
                                       r5.data, crcType, r5.pos),
                       payDesc, payload, embAuth, authInd, embAuthLen)

\* Lines 156-171: the payload descriptor, 4 bytes, +2 if timeTagtype, +2 if
\* eaf; authInd and embAuthLen are read only if eaf.  timeTagtype (line 158)
\* is extracted before either extension is read, so an end of input met by
\* an extension (lines 160, 167) leaves that extraction made.
parse_paydesc(self, s, p, preamble, framestart, nData, eaf, crcType) ==
    LET r1 == read_bytes(s, p, 4)
    IN  IF r1.eof THEN ParseEof(r1.pos, "READ_PAYDESC") ELSE
        LET timeTagtype == Get(r1.data, paydesc_later(0).timeTagtype)
            r2 == IF timeTagtype # 0
                  THEN read_bytes(s, r1.pos, 2)
                  ELSE [eof |-> FALSE, data |-> <<>>, pos |-> r1.pos]
        IN  IF r2.eof
            THEN WithReads(ParseEof(r2.pos, "READ_PAYDESC"),
                           Reads(r1.data, paydesc_later(0), {"timeTagtype"}))
            ELSE
            LET gtlen == IF timeTagtype # 0 THEN 32 ELSE 16
                r2b == IF eaf # 0
                       THEN read_bytes(s, r2.pos, 2)
                       ELSE [eof |-> FALSE, data |-> <<>>, pos |-> r2.pos]
            IN  IF r2b.eof
                THEN WithReads(ParseEof(r2b.pos, "READ_PAYDESC"),
                               Reads(r1.data, paydesc_later(0), {"timeTagtype"}))
                ELSE
                LET payDesc == r1.data \o r2.data \o r2b.data
                    tab == paydesc_later(gtlen)
                    authInd == IF eaf # 0 THEN Get(payDesc, tab.authInd) ELSE 0
                    embAuthLen == IF eaf # 0 THEN Get(payDesc, tab.embAuthLen) ELSE 0
                IN  WithReads(parse_tail(self, s, r2b.pos, preamble, framestart,
                                         payDesc, nData, crcType, authInd, embAuthLen),
                              Reads(r1.data, tab, {"timeTagtype"})
                              \cup (IF eaf # 0
                                    THEN Reads(payDesc, tab, {"authInd", "embAuthLen"})
                                    ELSE {}))

\* parse_spartn rejecting a frame whose frameCrc is not zero.
parse_spartn_checked(self, s, p, preamble) ==
    LET r0 == read_bytes(s, p, 3)
    IN  IF r0.eof THEN ParseEof(r0.pos, "READ_FRAMESTART") ELSE
        LET framestart == r0.data
            nData == Get(framestart, framestart_later.nData)
            eaf == Get(framestart, framestart_later.eaf)
            crcType == Get(framestart, framestart_later.crcType)
            frameCrc == bitsval(framestart, 20, 4)
        IN  IF frameCrc # 0
            THEN [status |-> "error", pos |-> r0.pos, at |-> "CRC",
                  raw |-> preamble \o framestart, core |-> framestart, crcb |-> <<>>,
                  value |-> PyStr(<<"Invalid CRC", <<frameCrc>> >>), handed |-> FALSE,
                  parts |-> NoParts]
            ELSE WithReads(parse_paydesc(self, s, r0.pos, preamble, framestart, nData,
                                         eaf, crcType),
                           Reads(framestart, framestart_later, DOMAIN framestart_later))

\* _parse_spartn(preamble) with the source at position p.
parse_spartn(self, s, p, preamble) ==
    LET r0 == read_bytes(s, p, 3)
    IN  IF r0.eof THEN ParseEof(r0.pos, "READ_FRAMESTART") ELSE
        LET framestart == r0.data
            nData == Get(framestart, framestart_later.nData)
            eaf == Get(framestart, framestart_later.eaf)
            crcType == Get(framestart, framestart_later.crcType)
        IN  WithReads(parse_paydesc(self, s, r0.pos, preamble, framestart, nData, eaf,
                                    crcType),
                      Reads(framestart, framestart_later, DOMAIN framestart_later))

\* _do_error that logs where it should raise.
do_error_noraise(self, err) ==
    IF self.quitonerror \in {ERRLOG, ERRRAISE}
    THEN IF self.errorhandler THEN "handler" ELSE "print"
    ELSE "none"

\* _do_error that does not log.
do_error_nolog(self, err) ==
    IF self.quitonerror = ERRRAISE THEN "raise" ELSE "none"

\* _do_error(err): "raise", "handler", "print", or "none".
do_error(self, err) ==
    IF self.quitonerror = ERRRAISE THEN "raise"
    ELSE IF self.quitonerror = ERRLOG
         THEN IF self.errorhandler THEN "handler" ELSE "print"
         ELSE "none"

\* What a call has done so far besides pulling bytes.
EmptyTrace == [errs |-> <<>>, handler |-> <<>>, printed |-> <<>>, handed |-> <<>>]

\* One error met at source offsets start+1..end, with its text.
ErrEvent(text, start, end, raw) == [text |-> text, start |-> start, end |-> end, raw |-> raw]

Handed(tr, r, start) ==
    IF r.handed
    THEN [tr EXCEPT !.handed = @ \o <<[raw |-> r.raw, start |-> start,
                                        parts |-> r.parts]>>]
    ELSE tr

\* The except clause of read() (lines 130-133) for error `text', then the
\* rest of the while loop from position p.
RECURSIVE read_loop(_, _, _, _)
\* The except clause ending the loop: read() returns (None, str(err)).
on_error_return(self, s, p, tr, text, start, raw) ==
    [kind |-> "return", raw |-> PyNone, parsed |-> text, pos |-> p,
     start |-> start,
     trace |-> [tr EXCEPT !.errs = @ \o <<ErrEvent(text, start, p, raw)>>]]

\* on_error raising with the source put back to where the error began.
on_error_rewind(self, s, p, tr, text, start, raw) ==
    LET how == IF self.quitonerror # 0 THEN do_error(self, text) ELSE "none"
        tr1 == [tr EXCEPT !.errs = @ \o <<ErrEvent(text, start, p, raw)>>]
    IN  CASE how = "raise" ->
               [kind |-> "raise", raw |-> PyNone, parsed |-> text, pos |-> start,
                start |-> start, trace |-> tr1]
          [] how = "handler" ->
               read_loop(self, s, p, [tr1 EXCEPT !.handler = @ \o <<text>>])
          [] how = "print" ->
               read_loop(self, s, p, [tr1 EXCEPT !.printed = @ \o <<text>>])
          [] OTHER -> read_loop(self, s, p, tr1)

on_error(self, s, p, tr, text, start, raw) ==
    LET how == IF self.quitonerror # 0 THEN do_error(self, text) ELSE "none"
        tr1 == [tr EXCEPT !.errs = @ \o <<ErrEvent(text, start, p, raw)>>]
    IN  CASE how = "raise" ->
               [kind |-> "raise", raw |-> PyNone, parsed |-> text, pos |-> p,
                start |-> start, trace |-> tr1]
          [] how = "handler" ->
               read_loop(self, s, p, [tr1 EXCEPT !.handler = @ \o <<text>>])
          [] how = "print" ->
               read_loop(self, s, p, [tr1 EXCEPT !.printed = @ \o <<text>>])
          [] OTHER -> read_loop(self, s, p, tr1)

\* read_parsed leaving the source where the returned frame began.
read_parsed_rewind(self, s, p, tr, r) ==
    CASE r.status = "eof" ->
           [kind |-> "return", raw |-> PyNone, parsed |-> PyNone,
            pos |-> r.pos, start |-> p, trace |-> Handed(tr, r, p)]
      [] r.status = "error" ->
           on_error(self, s, r.pos, Handed(tr, r, p), r.value, p, r.raw)
      [] OTHER ->
           [kind |-> "return", raw |-> PyBytes(r.raw), parsed |-> r.value,
            pos |-> p, start |-> p, trace |-> Handed(tr, r, p)]

\* read_parsed with EOFError handled like a parsing error.
read_parsed_eof_error(self, s, p, tr, r) ==
    CASE r.status \in {"eof", "error"} ->
           on_error(self, s, r.pos, Handed(tr, r, p),
                    IF r.status = "eof" THEN PyStr(<<"Truncated frame", r.at>>) ELSE r.value,
                    p, r.raw)
      [] OTHER ->
           [kind |-> "return", raw |-> PyBytes(r.raw), parsed |-> r.value,
            pos |-> r.pos, start |-> p, trace |-> Handed(tr, r, p)]

\* read_parsed going back to the byte after the preamble of a rejected frame.
read_parsed_rescan(self, s, p, tr, r) ==
    CASE r.status = "eof" ->
           [kind |-> "return", raw |-> PyNone, parsed |-> PyNone,
            pos |-> r.pos, start |-> p, trace |-> Handed(tr, r, p)]
      [] r.status = "error" ->
           on_error(self, s, p + 1, Handed(tr, r, p), r.value, p, r.raw)
      [] OTHER ->
           [kind |-> "return", raw |-> PyBytes(r.raw), parsed |-> r.value,
            pos |-> r.pos, start |-> p, trace |-> Handed(tr, r, p)]

\* The end of one pass of the while loop of read(), _parse_spartn having
\* left r for the frame that began at offset p.
read_parsed(self, s, p, tr, r) ==
    CASE r.status = "eof" ->
           [kind |-> "return", raw |-> PyNone, parsed |-> PyNone,
            pos |-> r.pos, start |-> p, trace |-> Handed(tr, r, p)]
      [] r.status = "error" ->
           on_error(self, s, r.pos, Handed(tr, r, p), r.value, p, r.raw)
      [] OTHER ->
           [kind |-> "return", raw |-> PyBytes(r.raw), parsed |-> r.value,
            pos |-> r.pos, start |-> p, trace |-> Handed(tr, r, p)]

\* read_byte1 discarding the byte after the offending one as well.
read_byte1_skip2(self, s, p, tr, b) ==
    IF b.eof
    THEN [kind |-> "return", raw |-> PyNone, parsed |-> PyNone, pos |-> b.pos,
          start |-> p, trace |-> tr]
    ELSE IF b.data # <<SPARTN_PREB>>
    THEN on_error(self, s, Min(b.pos + 1, Len(s)), tr,
                  PyStr(<<"Unknown protocol", b.data>>), p, b.data)
    ELSE CHOOSE out \in { read_parsed(self, s, p, tr, r) :
                          r \in {parse_spartn(self, s, b.pos, b.data)} } : TRUE

\* One pass of the while loop of read() (lines 117-135) after byte1 was read
\* at offset p with outcome b.
read_byte1(self, s, p, tr, b) ==
    IF b.eof
    THEN [kind |-> "return", raw |-> PyNone, parsed |-> PyNone, pos |-> b.pos,
          start |-> p, trace |-> tr]
    ELSE IF b.data # <<SPARTN_PREB>>
    THEN on_error(self, s, b.pos, tr, PyStr(<<"Unknown protocol", b.data>>), p, b.data)
    ELSE CHOOSE out \in { read_parsed(self, s, p, tr, r) :
                          r \in {parse_spartn(self, s, b.pos, b.data)} } : TRUE

\* The while loop of read() with the source at position p.  (What a call
\* returns is bound as the element of a singleton set: it is computed once.)
read_loop(self, s, p, tr) ==
    CHOOSE out \in { read_byte1(self, s, p, tr, b) : b \in {read_bytes(s, p, 1)} } : TRUE

\* SPARTNReader.read().
read(self, s, p) == read_loop(self, s, p, EmptyTrace)

\* __next__ that returns whatever read() gave.
next_nostop(self, s, p) == read(self, s, p)

\* SPARTNReader.__next__(): StopIteration iff read() gave (None, None).
next(self, s, p) ==
    CHOOSE out \in
      { IF r.kind = "return" /\ r.raw.type = "NoneType" /\ r.parsed.type = "NoneType"
        THEN [r EXCEPT !.kind = "stop"]
        ELSE r : r \in {read(self, s, p)} } : TRUE

(***************************************************************************)
(* The earlier reader, src/pyspartn/spartnreader.py.                       *)
(***************************************************************************)
\* Line 156: the embedded authentication length.
aln_earlier(embAuthLen) == (embAuthLen + 1) * 8

\* SPARTNReader.parse (static) of the earlier reader: SPARTNMessage(payload=message).
parse_earlier(message) == SPARTNMessage(message, FALSE, None, 0)

\* Lines 153-162 of _parse_spartn: payload, embedded authentication, CRC.
parse_tail_earlier(s, p, preamble, framestart, payDesc, nData, eaf, crcType, authInd, embAuthLen) ==
    LET r3 == read_bytes(s, p, nData)
    IN  IF r3.eof THEN ParseEof(r3.pos, "READ_PAYLOAD") ELSE
        LET r4 == IF eaf # 0 /\ authInd > 1
                  THEN read_bytes(s, r3.pos, aln_earlier(embAuthLen))
                  ELSE [eof |-> FALSE, data |-> <<>>, pos |-> r3.pos]
        IN  IF r4.eof THEN ParseEof(r4.pos, "READ_EMBAUTH") ELSE
            LET r5 == read_bytes(s, r4.pos, crcType + 1)
            IN  IF r5.eof THEN ParseEof(r5.pos, "READ_CRC") ELSE
                LET core == framestart \o payDesc \o r3.data \o r4.data
                    raw_data == preamble \o core \o r5.data
                    m == parse_earlier(raw_data)
                IN  Pulled([status |-> IF m.ok THEN "ok" ELSE "error", pos |-> r5.pos,
                            at |-> "EMIT", raw |-> raw_data, core |-> core,
                            crcb |-> r5.data, value |-> m.value, handed |-> TRUE],
                           payDesc, r3.data, r4.data, authInd, embAuthLen)

\* pos of the earlier reader without the time tag type.
pos_earlier_fixed(timeTagtype) == 21

\* Lines 137-142: pos, the bit offset after the GNSS time tag.
pos_earlier(timeTagtype) == IF timeTagtype # 0 THEN 37 ELSE 21

\* _parse_spartn(preamble) of the earlier reader (lines 126-162): the
\* payload descriptor is 6 bytes if eaf else 4, +2 if timeTagtype.  The
\* extractions of lines 127-131 precede the read of payDesc (line 134) and
\* those of lines 135-136 precede the read of its extension (line 138), so
\* an end of input met by either read leaves them made.
parse_spartn_earlier(s, p, preamble) ==
    LET r0 == read_bytes(s, p, 3)
    IN  IF r0.eof THEN ParseEof(r0.pos, "READ_FRAMESTART") ELSE
        LET framestart == r0.data
            nData == Get(framestart, framestart_earlier.nData)
            eaf == Get(framestart, framestart_earlier.eaf)
            crcType == Get(framestart, framestart_earlier.crcType)
            pln == IF eaf # 0 THEN 6 ELSE 4
            r1 == read_bytes(s, r0.pos, pln)
        IN  IF r1.eof
            THEN WithReads(ParseEof(r1.pos, "READ_PAYDESC"),
                           Reads(framestart, framestart_earlier, DOMAIN framestart_earlier))
            ELSE
            LET timeTagtype == Get(r1.data, paydesc_earlier(0, 0).timeTagtype)
                r2 == IF timeTagtype # 0
                      THEN read_bytes(s, r1.pos, 2)
                      ELSE [eof |-> FALSE, data |-> <<>>, pos |-> r1.pos]
            IN  IF r2.eof
                THEN WithReads(ParseEof(r2.pos, "READ_PAYDESC"),
                               Reads(framestart, framestart_earlier,
                                     DOMAIN framestart_earlier)
                               \cup Reads(r1.data, paydesc_earlier(0, 0),
                                          {"msgSubtype", "timeTagtype"}))
                ELSE
                LET payDesc == r1.data \o r2.data
                    gtlen == IF timeTagtype # 0 THEN 32 ELSE 16
                    bitpos == pos_earlier(timeTagtype)
                    tab == paydesc_earlier(gtlen, bitpos)
                    authInd == IF eaf # 0 THEN Get(payDesc, tab.authInd) ELSE 0
                    embAuthLen == IF eaf # 0 THEN Get(payDesc, tab.embAuthLen) ELSE 0
                IN  WithReads(parse_tail_earlier(s, r2.pos, preamble, framestart, payDesc,
                                                 nData, eaf, crcType, authInd, embAuthLen),
                              Reads(framestart, framestart_earlier, DOMAIN framestart_earlier)
                              \cup Reads(r1.data, tab, {"msgSubtype", "timeTagtype"})
                              \cup Reads(payDesc, tab, {"gnssTimeTag"})
                              \cup (IF eaf # 0
                                    THEN Reads(payDesc, tab, {"authInd", "embAuthLen"})
                                    ELSE {}))

\* The end of one pass of the while loop of the earlier read(),
\* _parse_spartn having left r for the frame that began at offset p.  An
\* error of the interpreter is not caught in read(): it leaves it.
read_earlier_parsed(p, tr, r) ==
    CASE r.status = "eof" ->
           [kind |-> "return", raw |-> PyNone, parsed |-> PyNone,
            pos |-> r.pos, start |-> p, trace |-> Handed(tr, r, p)]
      [] r.status = "error" ->
           [kind |-> "raise", raw |-> PyNone, parsed |-> r.value,
            pos |-> r.pos, start |-> p,
            trace |-> [Handed(tr, r, p) EXCEPT
                         !.errs = @ \o <<ErrEvent(r.value, p, r.pos, r.raw)>>]]
      [] OTHER ->
           [kind |-> "return", raw |-> PyBytes(r.raw), parsed |-> r.value,
            pos |-> r.pos, start |-> p, trace |-> Handed(tr, r, p)]

\* read() of the earlier reader (lines 90-112): one pass of the while loop
\* after byte1 was read at offset p with outcome b.
RECURSIVE read_earlier_loop(_, _, _, _)
read_earlier_byte1(self, s, p, tr, b) ==
    IF b.eof
    THEN [kind |-> "return", raw |-> PyNone, parsed |-> PyNone, pos |-> b.pos,
          start |-> p, trace |-> tr]
    ELSE IF b.data = <<SPARTN_PREB>>
    THEN CHOOSE out \in { read_earlier_parsed(p, tr, r) :
                          r \in {parse_spartn_earlier(s, b.pos, b.data)} } : TRUE
    ELSE IF self.quitonerror = 2
    THEN [kind |-> "raise", raw |-> PyNone,
          parsed |-> PyStr(<<"Unknown protocol", b.data>>),
          pos |-> b.pos, start |-> p,
          trace |-> [tr EXCEPT !.errs = @ \o
                       <<ErrEvent(PyStr(<<"Unknown protocol", b.data>>), p, b.pos, b.data)>>]]
    ELSE IF self.quitonerror = 1
    THEN [kind |-> "return", raw |-> PyBytes(b.data),
          parsed |-> PyStr(<<"<UNKNOWN PROTOCOL(header=)>", b.data>>),
          pos |-> b.pos, start |-> p,
          trace |-> [tr EXCEPT !.errs = @ \o
                       <<ErrEvent(PyStr(<<"Unknown protocol", b.data>>), p, b.pos, b.data)>>]]
    ELSE read_earlier_loop(self, s, b.pos,
                           [tr EXCEPT !.errs = @ \o
                              <<ErrEvent(PyStr(<<"Unknown protocol", b.data>>), p, b.pos, b.data)>>])

read_earlier_loop(self, s, p, tr) ==
    CHOOSE out \in { read_earlier_byte1(self, s, p, tr, b) :
                     b \in {read_bytes(s, p, 1)} } : TRUE

read_earlier(self, s, p) == read_earlier_loop(self, s, p, EmptyTrace)

\* __next__() of the earlier reader (lines 74-77): StopIteration iff the
\* raw data is None.
next_earlier(self, s, p) ==
    CHOOSE out \in
      { IF r.kind = "return" /\ r.raw.type = "NoneType"
        THEN [r EXCEPT !.kind = "stop"]
        ELSE r : r \in {read_earlier(self, s, p)} } : TRUE

\* iterate() called with no options.
NoKwargs == [quitonerror |-> {}, errorhandler |-> FALSE]

\* The options of iterate() (lines 190-191): quitonerror defaults to the
\* reader's own, errorhandler to None.
iterate_quitonerror(self, kw) ==
    IF kw.quitonerror = {} THEN self.quitonerror ELSE CHOOSE q \in kw.quitonerror : TRUE

iterate_errorhandler(kw) == kw.errorhandler

\* iterate() (lines 193-213) after next(self) has ended with r: yield the
\* pair, finish on StopIteration, or raise, log or ignore the error
\* according to the option quitonerror and go round the loop again.
RECURSIVE iterate_loop(_, _, _, _, _)
iterate_after(self, s, tr, r, kw) ==
    CASE r.kind = "return" -> [r EXCEPT !.kind = "yield", !.trace = tr]
      [] r.kind = "stop" -> [r EXCEPT !.trace = tr]
      [] OTHER ->
           IF iterate_quitonerror(self, kw) = 2
           THEN [r EXCEPT !.trace = tr]
           ELSE IF iterate_quitonerror(self, kw) = 1
           THEN IF iterate_errorhandler(kw)
                THEN iterate_loop(self, s, r.pos,
                                  [tr EXCEPT !.handler = @ \o <<r.parsed>>], kw)
                ELSE iterate_loop(self, s, r.pos,
                                  [tr EXCEPT !.printed = @ \o <<r.parsed>>], kw)
           ELSE iterate_loop(self, s, r.pos, tr, kw)

\* One resumption of the generator iterate(): it runs until it yields a
\* pair, finishes or raises.
iterate_loop(self, s, p, tr, kw) ==
    CHOOSE out \in
      { iterate_after(self, s,
                      [errs |-> tr.errs \o r.trace.errs, handler |-> tr.handler,
                       printed |-> tr.printed, handed |-> tr.handed \o r.trace.handed],
                      r, kw) : r \in {next_earlier(self, s, p)} } : TRUE

iterate(self, s, p, kw) == iterate_loop(self, s, p, EmptyTrace, kw)

(***************************************************************************)
(* Input streams.  A stream is a concatenation of chunks: single bytes     *)
(* that are not a preamble, and transport frames laid out as in the        *)
(* SPARTN 1X transport layer                                               *)
(*   preamble | framestart | payDesc | payload | embAuth | crc             *)
(* from a description of their header fields.                              *)
(***************************************************************************)
\* Embedded authentication length of the transport layout.
EmbAuthBytes(embAuthLen) ==
    CASE embAuthLen = 0 -> 8
      [] embAuthLen = 1 -> 12
      [] embAuthLen = 2 -> 16
      [] embAuthLen = 3 -> 32
      [] embAuthLen = 4 -> 64
      [] OTHER -> 0

\* framestart ++ payDesc ++ payload ++ embAuth of the frame described by f.
FrameCore(f) ==
    LET gtlen == IF f.timeTagtype = 1 THEN 32 ELSE 16
        framestart == IntToBits(f.msgType, 7) \o IntToBits(f.nData, 10)
                      \o IntToBits(f.eaf, 1) \o IntToBits(f.crcType, 2)
                      \o IntToBits(f.frameCrc, 4)
        payDesc == IntToBits(f.msgSubtype, 4) \o IntToBits(f.timeTagtype, 1)
                   \o Fill(gtlen, 0) \o IntToBits(0, 7) \o IntToBits(0, 4)
                   \o (IF f.eaf = 1
                       THEN IntToBits(0, 4) \o IntToBits(0, 6)
                            \o IntToBits(f.authInd, 3) \o IntToBits(f.embAuthLen, 3)
                       ELSE <<>>)
        embAuth == IF f.eaf = 1 /\ f.authInd > 1
                   THEN Fill(EmbAuthBytes(f.embAuthLen), f.fill)
                   ELSE <<>>
    IN  BitsToBytes(framestart \o payDesc) \o Fill(f.nData, f.fill) \o embAuth

\* The trailing CRC bytes: the CRC of the core, its last byte XOR-ed with
\* 0xFF when the frame is to carry a wrong CRC.
FrameCrc(f) ==
    LET good == CrcBytes(FrameCore(f), f.crcType)
        n == Len(good)
    IN  IF f.crcOK THEN good
        ELSE SubSeq(good, 1, n - 1) \o <<255 - good[n]>>

FrameBytes(f) == <<SPARTN_PREB>> \o FrameCore(f) \o FrameCrc(f)

FrameDesc(msgType, nData, eaf, crcType, timeTagtype, authInd, embAuthLen, fill, crcOK) ==
    [msgType |-> msgType, msgSubtype |-> 0, nData |-> nData, eaf |-> eaf,
     crcType |-> crcType, frameCrc |-> 0, timeTagtype |-> timeTagtype,
     authInd |-> authInd, embAuthLen |-> embAuthLen, fill |-> fill, crcOK |-> crcOK]

\* The frames streams are made of: payDesc of 4, 6 and 8 bytes, every CRC
\* type, embedded authentication present and absent, payload bytes equal to
\* the preamble, wrong CRCs and an unknown message type.
FrameDescs ==
    { FrameDesc(0, 1, 0, 0, 0, 0, 0, 171, TRUE),
      FrameDesc(0, 1, 1, 2, 0, 2, 0, 115, TRUE),
      FrameDesc(2, 0, 1, 3, 1, 2, 1, 7, TRUE),
      FrameDesc(1, 0, 1, 1, 0, 1, 4, 0, TRUE),
      FrameDesc(0, 1, 0, 0, 0, 0, 0, 171, FALSE),
      FrameDesc(0, 1, 1, 2, 0, 2, 0, 115, FALSE),
      FrameDesc(9, 1, 0, 0, 0, 0, 0, 171, TRUE),
      FrameDesc(9, 1, 0, 1, 0, 0, 0, 171, FALSE) }

\* Runs of bytes none of which is the preamble.
GarbageRuns == { <<0>>, <<65, 0, 0>> }

NoDesc == FrameDesc(0, 0, 0, 0, 0, 0, 0, 0, TRUE)

Chunks ==
    { [kind |-> "frame", desc |-> f, bytes |-> FrameBytes(f)] : f \in FrameDescs }
    \cup { [kind |-> "garbage", desc |-> NoDesc, bytes |-> g] : g \in GarbageRuns }

ChunkSeqs == UNION { [1..n -> Chunks] : n \in 0..MaxChunks }

StreamOf(cs) == Concat([i \in 1..Len(cs) |-> cs[i].bytes])

\* Streams that end inside a frame: at most one whole chunk, then a valid
\* frame cut short after its first n bytes, for every n from the preamble
\* alone to all but the last CRC byte.
ValidFrameDescs == { f \in FrameDescs : f.crcOK /\ KnownIdentity(f.msgType, f.msgSubtype) }

TruncatedChunks ==
    UNION { { [kind |-> "truncated", desc |-> f, bytes |-> SubSeq(FrameBytes(f), 1, n)] :
              n \in 1..(Len(FrameBytes(f)) - 1) } : f \in ValidFrameDescs }

EofChunkSeqs ==
    { <<t>> : t \in TruncatedChunks }
    \cup { <<c, t>> : c \in Chunks, t \in TruncatedChunks }

(***************************************************************************)
(* The state machine.                                                      *)
(***************************************************************************)
Self ==
    [validate |-> validate, quitonerror |-> quitonerror,
     errorhandler |-> errorhandler, decrypt |-> decrypt, key |-> key]

NoResult ==
    [kind |-> "none", raw |-> PyNone, parsed |-> PyNone, from |-> 0, start |-> 0, end |-> 0]

\* Lines 75-76 of __init__: self._decrypt = kwargs.get("decrypt", False) and
\* self._key = kwargs.get("key", getenv("MQTTKEY", None)).  c.key is "absent"
\* when the key option is not given.
init_decrypt(c) == c.decrypt
init_key(c) == IF c.key # "absent" THEN c.key ELSE c.MQTTKEY

\* __init__ without the check of the key.
init_raises_never(dec, k) == FALSE

\* Lines 78-79 of __init__: ParameterError is raised.
init_raises(dec, k) == dec /\ k = None

\* No decrypt option, no key option, MQTTKEY not set.
DefaultCtor == [decrypt |-> FALSE, key |-> "absent", MQTTKEY |-> None]

\* No SPARTNReader.parse(raw) asked for.
NoParse == [ok |-> FALSE, value |-> PyNone]

\* No schema walk is under way.
NoWalk == [schema |-> "", stack |-> <<>>]

\* An attribute dictionary (__dict__ of an object): a function from
\* attribute names to values.
EmptyDict == [n \in {} |-> 0]

\* No reader instances.
NoStore ==
    [cls |-> EmptyDict, inst |-> <<>>, args |-> <<>>, streams |-> <<>>, hist |-> <<>>]

\* The state after SPARTNReader(stream, validate=..., quitonerror=...,
\* errorhandler=...) with decryption left disabled.
Init ==
    /\ chunks \in ChunkSeqs
    /\ stream = StreamOf(chunks)
    /\ pos = 0
    /\ variant \in {"later", "earlier"}
    /\ quitonerror \in {0, ERRLOG, ERRRAISE}
    /\ validate \in IF variant = "later" THEN {0, VALCRC} ELSE {VALCRC}
    /\ errorhandler \in BOOLEAN
    /\ ctor = DefaultCtor
    /\ decrypt = init_decrypt(ctor)
    /\ key = init_key(ctor)
    /\ result = NoResult
    /\ reparsed = NoParse
    /\ store = NoStore
    /\ walk = NoWalk
    /\ trace = EmptyTrace
    /\ log = <<>>
    /\ stdout = <<>>
    /\ hist = <<>>
    /\ stopped = FALSE
    /\ gen = "none"
    /\ kwargs = NoKwargs
    /\ driver = "none"

\* The caller gets outcome r of a call.
Outcome(r) ==
    /\ pos' = r.pos
    /\ result' = [kind |-> r.kind, raw |-> r.raw, parsed |-> r.parsed,
                  from |-> pos, start |-> r.start, end |-> r.pos]
    /\ trace' = r.trace
    /\ log' = log \o r.trace.handler
    /\ stdout' = stdout \o r.trace.printed
    /\ hist' = Append(hist, result')
    /\ reparsed' = NoParse
    /\ UNCHANGED <<stream, variant, validate, quitonerror, errorhandler,
                   decrypt, key, ctor, store, walk, chunks>>

\* The caller uses one way of driving the reader throughout, and makes at
\* most MaxCalls calls.
Drive(how) ==
    /\ driver \in {"none", how}
    /\ driver' = how
    /\ Len(hist) < MaxCalls

\* reader.read() on the later reader.
Read ==
    /\ variant = "later"
    /\ Drive("read")
    /\ \E r \in {read(Self, stream, pos)} : Outcome(r)
    /\ UNCHANGED <<stopped, gen, kwargs>>

\* next(reader) on the later reader.
Next_ ==
    /\ variant = "later"
    /\ Drive("next")
    /\ \E r \in {next(Self, stream, pos)} :
           /\ Outcome(r)
           /\ stopped' = (stopped \/ r.kind = "stop")
    /\ UNCHANGED <<gen, kwargs>>

\* reader.read() on the earlier reader.
ReadEarlier ==
    /\ variant = "earlier"
    /\ Drive("read")
    /\ \E r \in {read_earlier(Self, stream, pos)} : Outcome(r)
    /\ UNCHANGED <<stopped, gen, kwargs>>

\* next(reader) on the earlier reader.
NextEarlier ==
    /\ variant = "earlier"
    /\ Drive("next")
    /\ \E r \in {next_earlier(Self, stream, pos)} :
           /\ Outcome(r)
           /\ stopped' = (stopped \/ r.kind = "stop")
    /\ UNCHANGED <<gen, kwargs>>

\* The options reader.iterate() may be called with: quitonerror absent, 0,
\* 1 or 2, and the error handler.
IterateKwargs ==
    { [quitonerror |-> q, errorhandler |-> errorhandler] : q \in {{}, {0}, {1}, {2}} }

\* One resumption of the generator reader.iterate(**kw) of the earlier
\* reader: the call that makes the generator fixes the options; a generator
\* that has finished or raised stays finished.
IterateWith(kw) ==
    /\ variant = "earlier"
    /\ Drive("iterate")
    /\ gen # "finished"
    /\ gen # "none" => kw = kwargs
    /\ kwargs' = kw
    /\ \E r \in {iterate(Self, stream, pos, kw)} :
           /\ Outcome(r)
           /\ stopped' = (stopped \/ r.kind = "stop")
           /\ gen' = IF r.kind = "yield" THEN "active" ELSE "finished"

Iterate == \E kw \in IterateKwargs : IterateWith(kw)

Next == Read \/ Next_ \/ ReadEarlier \/ NextEarlier \/ Iterate

Spec == Init /\ [][Next]_vars

\* Readers with CRC validation and an error handler, on streams that end
\* inside a frame.
InitEof ==
    /\ chunks \in EofChunkSeqs
    /\ stream = StreamOf(chunks)
    /\ pos = 0
    /\ variant \in {"later", "earlier"}
    /\ quitonerror \in {0, ERRLOG, ERRRAISE}
    /\ validate = VALCRC
    /\ errorhandler = TRUE
    /\ ctor = DefaultCtor
    /\ decrypt = init_decrypt(ctor)
    /\ key = init_key(ctor)
    /\ result = NoResult
    /\ reparsed = NoParse
    /\ store = NoStore
    /\ walk = NoWalk
    /\ trace = EmptyTrace
    /\ log = <<>>
    /\ stdout = <<>>
    /\ hist = <<>>
    /\ stopped = FALSE
    /\ gen = "none"
    /\ kwargs = NoKwargs
    /\ driver = "none"

SpecEof == InitEof /\ [][Next]_vars

\* Streams of at most one chunk.
CtorChunkSeqs == {<<>>} \cup { <<c>> : c \in Chunks }

\* What the constructor may be given: decrypt, the key option (absent, None
\* or a key) and the environment variable MQTTKEY (not set, or a key).
CtorArgs ==
    [decrypt : BOOLEAN, key : {"absent", None, KeyA}, MQTTKEY : {None, KeyB}]

\* SPARTNReader(stream, decrypt=..., key=..., validate=..., quitonerror=...)
\* of the later reader: a reader, or ParameterError and no reader.
InitCtor ==
    /\ chunks \in CtorChunkSeqs
    /\ stream = StreamOf(chunks)
    /\ pos = 0
    /\ variant = "later"
    /\ quitonerror \in {0, ERRLOG, ERRRAISE}
    /\ validate \in {0, VALCRC}
    /\ errorhandler = FALSE
    /\ ctor \in CtorArgs
    /\ decrypt = init_decrypt(ctor)
    /\ key = init_key(ctor)
    /\ IF init_raises(decrypt, key)
       THEN result = [NoResult EXCEPT !.kind = "ParameterError"] /\ driver = "no reader"
       ELSE result = NoResult /\ driver = "none"
    /\ reparsed = NoParse
    /\ store = NoStore
    /\ walk = NoWalk
    /\ trace = EmptyTrace
    /\ log = <<>>
    /\ stdout = <<>>
    /\ hist = <<>>
    /\ stopped = FALSE
    /\ gen = "none"
    /\ kwargs = NoKwargs

\* SPARTNReader.parse(raw) with its default options (validate=VALCRC,
\* decrypt=False, key=None) on the raw bytes the last call returned.
Parse ==
    /\ variant = "later"
    /\ result.kind = "return" /\ result.raw.type = "bytes"
    /\ reparsed = NoParse
    /\ reparsed' = parse(result.raw.v, VALCRC, FALSE, None)
    /\ UNCHANGED <<stream, pos, variant, validate, quitonerror, errorhandler, decrypt,
                   key, result, trace, log, stdout, hist, stopped, gen, kwargs, driver, ctor,
                   store, walk, chunks>>

NextCtor == Read \/ Next_ \/ Parse

SpecCtor == InitCtor /\ [][NextCtor]_vars

\* self.name = value: the attribute is set in the dictionary d.
setattr(d, name, value) == (name :> value) @@ d

\* self.name read by a method of instance i: the attribute of the instance
\* if it has one of that name, else the attribute of the class.
getattr(st, i, name) ==
    IF name \in DOMAIN st.inst[i] THEN st.inst[i][name] ELSE st.cls[name]

\* __init__ setting the options as attributes of the class SPARTNReader,
\* and only the stream as an attribute of the instance.
init_classwide(st, i, datastream, a) ==
    [st EXCEPT
       !.inst[i] = setattr(@, "_stream", datastream),
       !.cls = setattr(setattr(setattr(setattr(setattr(@,
                   "_validate", a.validate),
                   "_quitonerror", a.quitonerror),
                   "_errorhandler", a.errorhandler),
                   "_decrypt", init_decrypt(a.ctor)),
                   "_key", init_key(a.ctor)),
       !.args[i] = a]

\* __init__(self, datastream, **kwargs) of instance i, lines 67-76: every
\* attribute is set on self.
init(st, i, datastream, a) ==
    [st EXCEPT
       !.inst[i] = setattr(setattr(setattr(setattr(setattr(setattr(@,
                   "_stream", datastream),
                   "_validate", a.validate),
                   "_quitonerror", a.quitonerror),
                   "_errorhandler", a.errorhandler),
                   "_decrypt", init_decrypt(a.ctor)),
                   "_key", init_key(a.ctor)),
       !.args[i] = a]

\* The attributes a read() of instance i works with (self._validate,
\* self._quitonerror, self._errorhandler, self._decrypt, self._key).
attributes_of(st, i) ==
    [validate |-> getattr(st, i, "_validate"),
     quitonerror |-> getattr(st, i, "_quitonerror"),
     errorhandler |-> getattr(st, i, "_errorhandler"),
     decrypt |-> getattr(st, i, "_decrypt"),
     key |-> getattr(st, i, "_key")]

\* read() of instance i: it pulls from the stream object self._stream,
\* which keeps the position, and the caller gets the outcome.  `store' is
\* the objects after the call; `trace' is what the call did besides: the
\* errors it met, and the texts _do_error printed (line 231) or handed to
\* the error handler (line 229).
read_of(st, i) ==
    LET ref == getattr(st, i, "_stream")
        so == st.streams[ref]
    IN  CHOOSE out \in
          { [store |->
               [st EXCEPT
                  !.streams[ref].pos = r.pos,
                  !.hist[i] = Append(@, [kind |-> r.kind, raw |-> r.raw,
                                         parsed |-> r.parsed, from |-> so.pos,
                                         start |-> r.start, end |-> r.pos])],
             trace |-> r.trace] :
            r \in {read(attributes_of(st, i), so.bytes, so.pos)} } : TRUE

\* Streams of the second reader: empty, bytes that are no preamble, a frame
\* with a CRC-24Q that is right or wrong.
OtherChunkSeqs ==
    {<<>>} \cup { <<c>> : c \in { d \in Chunks : d.kind = "garbage" \/ d.desc.crcType = 2 } }

\* No constructor call yet.
NoArgs == [made |-> FALSE, validate |-> VALCRC, quitonerror |-> ERRLOG,
           errorhandler |-> FALSE, ctor |-> DefaultCtor]

\* What the caller may give the constructor of instance i: validate and
\* quitonerror; no error handler, decryption left disabled.
ArgsOf(i) ==
    { [made |-> TRUE, validate |-> v, quitonerror |-> q, errorhandler |-> FALSE,
       ctor |-> DefaultCtor] :
      v \in {0, VALCRC}, q \in (IF i = 1 THEN {ERRLOG, ERRRAISE} ELSE {0, ERRRAISE}) }

\* Two stream objects, each of at most one chunk, and no reader yet; the
\* class SPARTNReader has no attributes but its methods (lines 48-262).
InitTwo ==
    /\ chunks = <<>>
    /\ stream = <<>>
    /\ pos = 0
    /\ variant = "later"
    /\ quitonerror = ERRLOG
    /\ validate = VALCRC
    /\ errorhandler = FALSE
    /\ ctor = DefaultCtor
    /\ decrypt = init_decrypt(ctor)
    /\ key = init_key(ctor)
    /\ result = NoResult
    /\ reparsed = NoParse
    /\ \E c1 \in CtorChunkSeqs, c2 \in OtherChunkSeqs :
           store = [cls |-> EmptyDict,
                    inst |-> <<EmptyDict, EmptyDict>>,
                    args |-> <<NoArgs, NoArgs>>,
                    streams |-> << [bytes |-> StreamOf(c1), pos |-> 0],
                                   [bytes |-> StreamOf(c2), pos |-> 0] >>,
                    hist |-> << <<>>, <<>> >>]
    /\ walk = NoWalk
    /\ trace = EmptyTrace
    /\ log = <<>>
    /\ stdout = <<>>
    /\ hist = <<>>
    /\ stopped = FALSE
    /\ gen = "none"
    /\ kwargs = NoKwargs
    /\ driver = "none"

\* SPARTNReader(stream i, validate=..., quitonerror=...) makes instance i.
Construct(i) ==
    /\ ~store.args[i].made
    /\ \E a \in ArgsOf(i) : store' = init(store, i, i, a)
    /\ UNCHANGED <<stream, pos, variant, validate, quitonerror, errorhandler, decrypt,
                   key, result, trace, log, stdout, hist, stopped, gen, kwargs, driver, ctor,
                   reparsed, walk, chunks>>

\* read() on instance i; what it prints goes to the standard output of the
\* process, whichever instance prints.
ReadOf(i) ==
    /\ store.args[i].made
    /\ Len(store.hist[i]) < MaxCalls
    /\ \E out \in {read_of(store, i)} :
           /\ store' = out.store
           /\ trace' = out.trace
           /\ log' = log \o out.trace.handler
           /\ stdout' = stdout \o out.trace.printed
    /\ UNCHANGED <<stream, pos, variant, validate, quitonerror, errorhandler, decrypt,
                   key, result, hist, stopped, gen, kwargs, driver, ctor,
                   reparsed, walk, chunks>>

NextTwo == Construct(1) \/ Construct(2) \/ ReadOf(1) \/ ReadOf(2)

SpecTwo == InitTwo /\ [][NextTwo]_vars

(***************************************************************************)
(* Vocabulary of the properties.                                           *)
(***************************************************************************)
Range(f) == { f[i] : i \in DOMAIN f }

\* Source offsets of chunk i: its bytes are stream[ChunkStart(i)+1 .. ChunkEnd(i)].
ChunkStart(i) == Len(StreamOf(SubSeq(chunks, 1, i - 1)))
ChunkEnd(i) == ChunkStart(i) + Len(chunks[i].bytes)

IsFrame(i) == chunks[i].kind = "frame"
GoodCrc(i) == chunks[i].desc.crcOK
Accepted(i) == KnownIdentity(chunks[i].desc.msgType, chunks[i].desc.msgSubtype)
ValidFrame(i) == IsFrame(i) /\ GoodCrc(i) /\ Accepted(i)

\* What the caller got: a (raw_bytes, record) pair, a (bytes, text) pair,
\* end of stream ((None, None) or StopIteration), or an exception.
IsPair(h) ==
    h.kind \in {"return", "yield"} /\ h.raw.type = "bytes" /\ h.parsed.type = "SPARTNMessage"
IsErrPair(h) ==
    h.kind \in {"return", "yield"} /\ h.raw.type = "bytes" /\ h.parsed.type = "str"
IsEnd(h) ==
    \/ h.kind = "stop"
    \/ h.kind = "return" /\ h.raw.type = "NoneType" /\ h.parsed.type = "NoneType"
IsRaise(h) == h.kind = "raise"

Called == result.kind # "none"
Later == variant = "later"
Validating == BitAnd1(validate) # 0

\* The last call pulled all of chunk i.
Covers(i) == Called /\ result.from <= ChunkStart(i) /\ ChunkEnd(i) <= result.end

\* The texts of the errors the last call met, in order.
ErrTexts == Tup([i \in 1..Len(trace.errs) |-> trace.errs[i].text])

IsInvalidCRC(text) == text.type = "str" /\ text.v[1] = "Invalid CRC"
IsUnknownProtocol(text) == text.type = "str" /\ text.v[1] = "Unknown protocol"
IsInterpreterError(text) == text.type = "str" /\ text.v[1] = "Unknown message identity"

\* The text of the InvalidCRC error for the frame of chunk i.
InvalidCRCText(i) == PyStr(<<"Invalid CRC", int_from_bytes_big(FrameCrc(chunks[i].desc))>>)

\* Index in hist of the first end of stream (0 if there is none yet).
FirstEnd ==
    IF \E i \in DOMAIN hist : IsEnd(hist[i])
    THEN CHOOSE i \in DOMAIN hist : IsEnd(hist[i]) /\ \A j \in 1..(i - 1) : ~IsEnd(hist[j])
    ELSE 0

\* The raw bytes of the first n outcomes, concatenated.
RawConcat(n) == Concat(Tup([j \in 1..n |-> hist[j].raw.v]))

(***************************************************************************)
(* C1.  Round trip of framing.                                             *)
(***************************************************************************)
WellFormedStream == \A i \in DOMAIN chunks : ValidFrame(i)

\* C1: for every stream that is the concatenation of k well-formed frames
\* (correct CRC, payload the interpreter accepts), iterating the reader to
\* exhaustion yields exactly k (raw_bytes, record) pairs whose raw_bytes,
\* concatenated in the order yielded, give the stream.  Stated for both
\* readers and every way of iterating (read(), __next__(), iterate()).
C1_RoundTrip ==
    (WellFormedStream /\ FirstEnd # 0) =>
        /\ FirstEnd - 1 = Len(chunks)
        /\ \A j \in 1..(FirstEnd - 1) : IsPair(hist[j])
        /\ RawConcat(FirstEnd - 1) = stream

(***************************************************************************)
(* C2.  Length of a returned frame.                                        *)
(***************************************************************************)
\* Header fields of a raw frame: the preamble is bits 0..7, framestart bits
\* 8..31, payDesc begins at bit 32.
HdrNData(raw) == bitsval(raw, 15, 10)
HdrEaf(raw) == bitsval(raw, 25, 1)
HdrCrcType(raw) == bitsval(raw, 26, 2)
HdrTimeTagtype(raw) == bitsval(raw, 36, 1)
HdrGtlen(raw) == IF HdrTimeTagtype(raw) = 1 THEN 32 ELSE 16
HdrAuthInd(raw) == IF HdrEaf(raw) = 1 THEN bitsval(raw, 32 + HdrGtlen(raw) + 26, 3) ELSE 0
HdrEmbAuthLen(raw) == IF HdrEaf(raw) = 1 THEN bitsval(raw, 32 + HdrGtlen(raw) + 29, 3) ELSE 0

\* 1 + 3 + payDescLen + nData + embAuthLen + (crcType + 1) from the header.
FrameLen(raw) ==
    1 + 3 + PayDescLen(HdrEaf(raw), HdrTimeTagtype(raw)) + HdrNData(raw)
      + (IF HdrEaf(raw) = 1 /\ HdrAuthInd(raw) > 1
         THEN EmbAuthBytes(HdrEmbAuthLen(raw)) ELSE 0)
      + (HdrCrcType(raw) + 1)

\* C2: every frame returned by read() of the later reader has
\* len(raw_bytes) = 1 + 3 + payDescLen + nData + embAuthLen + (crcType+1)
\* computed from the header bits of that raw_bytes, and exactly these bytes
\* of the source were pulled for it.
C2_FrameLength ==
    Later => \A j \in DOMAIN hist :
        IsPair(hist[j]) =>
            /\ Len(hist[j].raw.v) = FrameLen(hist[j].raw.v)
            /\ hist[j].end - hist[j].start = Len(hist[j].raw.v)
            /\ hist[j].raw.v = SubSeq(stream, hist[j].start + 1, hist[j].end)

\* The later reader has returned a 28-byte frame with an 8-byte payload
\* descriptor, 12 bytes of embedded authentication and a 4-byte CRC.
C2_Witness ==
    /\ Later /\ IsPair(result)
    /\ HdrTimeTagtype(result.raw.v) = 1 /\ HdrEaf(result.raw.v) = 1
    /\ HdrAuthInd(result.raw.v) > 1 /\ HdrEmbAuthLen(result.raw.v) = 1
    /\ HdrCrcType(result.raw.v) = 3
    /\ Len(result.raw.v) = 28

(***************************************************************************)
(* C3, C4, C5.  CRC validation.                                            *)
(***************************************************************************)
\* The last call let the caller know of error `text': it raised it, passed
\* it to the error handler (or printed it), or returned it in the pair.
Surfaced(text) ==
    \/ IsRaise(result) /\ result.parsed = text
    \/ text \in Range(trace.handler)
    \/ text \in Range(trace.printed)
    \/ IsErrPair(result) /\ result.parsed = text

\* C3: with validate=1, for every frame whose trailing CRC bytes differ from
\* the CRC of the covered bytes, read() surfaces an InvalidCRC error to the
\* caller (raised, passed to the error handler, or returned as the error
\* text of the pair), for every quitonerror in {0, 1, 2}.
C3_InvalidCRCSurfaced ==
    (Later /\ Validating) =>
        \A i \in DOMAIN chunks :
            (IsFrame(i) /\ ~GoodCrc(i) /\ Covers(i)) => Surfaced(InvalidCRCText(i))

\* The last call returned the frame of chunk i as a successful pair.
ReturnedAsPair(i) ==
    /\ IsPair(result)
    /\ result.start = ChunkStart(i)
    /\ result.raw.v = chunks[i].bytes

\* The last call handed the frame of chunk i to the payload interpreter.
HandedToInterpreter(i) ==
    \E k \in DOMAIN trace.handed :
        trace.handed[k].start = ChunkStart(i) /\ trace.handed[k].raw = chunks[i].bytes

\* C4 as stated: a frame whose trailing CRC does not match is returned by
\* read() as a successful pair if and only if CRC validation is disabled;
\* with validate=1 it is never handed to the payload interpreter.
C4_Original ==
    Later => \A i \in DOMAIN chunks :
        (IsFrame(i) /\ ~GoodCrc(i) /\ Covers(i)) =>
            /\ ReturnedAsPair(i) <=> ~Validating
            /\ Validating => ~HandedToInterpreter(i)

\* C4 (amended): a frame whose trailing CRC does not match is returned by
\* read() as a successful pair if and only if CRC validation is disabled and
\* the payload interpreter accepts the frame; with validation disabled it is
\* always handed to the interpreter, with validate=1 never.
C4_BadCrcReturned ==
    Later => \A i \in DOMAIN chunks :
        (IsFrame(i) /\ ~GoodCrc(i) /\ Covers(i)) =>
            /\ ReturnedAsPair(i) <=> (~Validating /\ Accepted(i))
            /\ HandedToInterpreter(i) <=> ~Validating

\* With validation disabled the later reader has returned a frame whose CRC
\* is wrong as a successful pair.
C4_Witness ==
    /\ Later /\ ~Validating
    /\ \E i \in DOMAIN chunks :
           IsFrame(i) /\ ~GoodCrc(i) /\ Covers(i) /\ ReturnedAsPair(i)
           /\ HandedToInterpreter(i)

\* C5: for every frame whose trailing CRC equals the CRC computed over
\* framestart ++ payDesc ++ payload ++ embAuth, read() never reports or
\* raises InvalidCRC for that frame, for every validate and quitonerror.
C5_NoFalseInvalidCRC ==
    Later => \A i \in DOMAIN chunks :
        (IsFrame(i) /\ GoodCrc(i)) =>
            /\ \A k \in DOMAIN trace.errs :
                   trace.errs[k].start = ChunkStart(i) => ~IsInvalidCRC(trace.errs[k].text)
            /\ (IsRaise(result) /\ result.start = ChunkStart(i)) => ~IsInvalidCRC(result.parsed)
            /\ (Covers(i) /\ Accepted(i)) => ReturnedAsPair(i)

\* With validate=1 the later reader has checked the CRC-32 of a frame whose
\* CRC is right and returned the frame.
C5_Witness ==
    /\ Later /\ Validating
    /\ \E i \in DOMAIN chunks :
           /\ IsFrame(i) /\ GoodCrc(i) /\ chunks[i].desc.crcType = 3
           /\ Covers(i) /\ ReturnedAsPair(i)

(***************************************************************************)
(* C6, C7.  What read() returns on recoverable settings.                   *)
(***************************************************************************)
GarbageThenFrame == Len(chunks) = 2 /\ chunks[1].kind = "garbage" /\ ValidFrame(2)

\* C6: on a stream garbage ++ valid_frame, garbage holding no 0x73,
\* repeated read() with quitonerror in {0, 1} returns (raw_bytes, record)
\* with raw_bytes = valid_frame before any (None, None) is returned.
\* Stated for both readers.
C6_FrameAfterGarbage ==
    (GarbageThenFrame /\ quitonerror \in {0, ERRLOG} /\ driver = "read" /\ FirstEnd # 0) =>
        \E j \in 1..(FirstEnd - 1) :
            IsPair(hist[j]) /\ hist[j].raw.v = chunks[2].bytes

\* C7: with quitonerror in {0, 1} a frame-level error makes read() return a
\* pair (bytes, text) of the offending bytes and the error text; so every
\* result of read() is (None, None), (bytes, text) or (bytes, record).
\* Stated for both readers.
C7_ErrorPair ==
    (driver = "read" /\ quitonerror \in {0, ERRLOG} /\ Called) =>
        /\ IsEnd(result) \/ IsErrPair(result) \/ IsPair(result)
        /\ trace.errs # <<>> =>
               IsErrPair(result) /\ result.raw.v = trace.errs[1].raw

(***************************************************************************)
(* C8, C9, C10.  The three settings of quitonerror in the later reader.    *)
(***************************************************************************)
\* Chunk i is a frame the reader rejects: its CRC is wrong and checked, or
\* the interpreter does not accept it.
Rejected(i) == IsFrame(i) /\ ((Validating /\ ~GoodCrc(i)) \/ ~Accepted(i))

\* The places of the stream pulled by the last call where a frame-level
\* error is due: every byte of a garbage chunk, every rejected frame.
ErrSites ==
    UNION { { <<i, k>> : k \in 1..(IF IsFrame(i) THEN (IF Rejected(i) THEN 1 ELSE 0)
                                   ELSE Len(chunks[i].bytes)) } :
            i \in { c \in DOMAIN chunks : Covers(c) } }

\* The errors of the last call lie one after the other from where the call
\* began, and what it returned follows the last of them.
ErrsContiguous ==
    /\ \A k \in DOMAIN trace.errs :
           trace.errs[k].start = IF k = 1 THEN result.from ELSE trace.errs[k - 1].end
    /\ trace.errs # <<>> => result.start = trace.errs[Len(trace.errs)].end

\* C8: with quitonerror=2 every frame-level error met by read() (first byte
\* other than 0x73, CRC mismatch with validate=1, error of the payload
\* interpreter) is raised to the caller, and the error handler is not
\* invoked (nor anything printed).
C8_RaiseOnError ==
    (Later /\ quitonerror = ERRRAISE /\ Called) =>
        /\ trace.handler = <<>> /\ trace.printed = <<>> /\ log = <<>> /\ stdout = <<>>
        /\ trace.errs # <<>> =>
               IsRaise(result) /\ Len(trace.errs) = 1 /\ result.parsed = trace.errs[1].text
        /\ (result.from < Len(stream) /\ stream[result.from + 1] # SPARTN_PREB) =>
               /\ IsRaise(result)
               /\ result.parsed = PyStr(<<"Unknown protocol", <<stream[result.from + 1]>> >>)
               /\ result.end = result.from + 1
        /\ \A i \in DOMAIN chunks :
               (IsFrame(i) /\ ChunkStart(i) = result.from) =>
                   /\ (Validating /\ ~GoodCrc(i)) =>
                          IsRaise(result) /\ result.parsed = InvalidCRCText(i)
                   /\ ((~Validating \/ GoodCrc(i)) /\ ~Accepted(i)) =>
                          IsRaise(result) /\ IsInterpreterError(result.parsed)
                   /\ ~Rejected(i) => ReturnedAsPair(i)

\* With quitonerror=2 and an error handler set, read() has raised the
\* InvalidCRC error of a frame and the handler was not invoked.
C8_Witness ==
    /\ Later /\ quitonerror = ERRRAISE /\ errorhandler /\ Validating
    /\ IsRaise(result) /\ IsInvalidCRC(result.parsed)
    /\ log = <<>> /\ stdout = <<>>

\* The UnknownProtocol texts of the bytes of g, in order.
UnknownProtocolTexts(g) == Tup([k \in 1..Len(g) |-> PyStr(<<"Unknown protocol", <<g[k]>> >>)])

\* C9: with quitonerror=1 every frame-level error met by read() causes
\* exactly one invocation of the error handler with the error text (one
\* line on stdout when no handler is set) and no exception; n bytes other
\* than 0x73 followed by one valid frame give exactly n UnknownProtocol
\* reports and then the valid record.
C9_LogOnError ==
    (Later /\ quitonerror = ERRLOG /\ Called) =>
        /\ ~IsRaise(result)
        /\ Len(trace.errs) = Cardinality(ErrSites)
        /\ IF errorhandler
           THEN trace.handler = ErrTexts /\ trace.printed = <<>> /\ stdout = <<>>
           ELSE trace.printed = ErrTexts /\ trace.handler = <<>> /\ log = <<>>
        /\ (GarbageThenFrame /\ Len(hist) = 1) =>
               /\ IsPair(result) /\ result.raw.v = chunks[2].bytes
               /\ (IF errorhandler THEN log ELSE stdout)
                     = UnknownProtocolTexts(chunks[1].bytes)

\* With quitonerror=1 and a handler set, one read() of three bytes other
\* than 0x73 followed by a valid frame has invoked the handler three times
\* and returned the record.
C9_Witness ==
    /\ Later /\ quitonerror = ERRLOG /\ errorhandler
    /\ GarbageThenFrame /\ Len(chunks[1].bytes) = 3 /\ Len(hist) = 1
    /\ Len(log) = 3 /\ \A k \in 1..3 : IsUnknownProtocol(log[k])
    /\ IsPair(result)

\* C10: with quitonerror=0 no frame-level error invokes the error handler,
\* prints anything or raises: read() continues with the following bytes of
\* the stream, and iteration continues until end of stream.
C10_SilentOnError ==
    (Later /\ quitonerror = 0 /\ Called) =>
        /\ ~IsRaise(result)
        /\ trace.handler = <<>> /\ trace.printed = <<>> /\ log = <<>> /\ stdout = <<>>
        /\ Len(trace.errs) = Cardinality(ErrSites)
        /\ ErrsContiguous
        /\ IsPair(result) \/ (IsEnd(result) /\ result.end = Len(stream))

\* With quitonerror=0 and a handler set, one read() has passed over a byte
\* other than 0x73 and over a frame with a wrong CRC, in silence, and
\* reached the end of the stream.
C10_Witness ==
    /\ Later /\ quitonerror = 0 /\ errorhandler /\ Validating
    /\ \E k \in DOMAIN trace.errs : IsUnknownProtocol(trace.errs[k].text)
    /\ \E k \in DOMAIN trace.errs : IsInvalidCRC(trace.errs[k].text)
    /\ log = <<>> /\ stdout = <<>>
    /\ IsEnd(result) /\ result.end = Len(stream)

(***************************************************************************)
(* C11, C12.  End of stream.                                               *)
(***************************************************************************)
\* The stream ends inside a frame, whose preamble is at offset TruncStart.
HasTruncated == chunks # <<>> /\ chunks[Len(chunks)].kind = "truncated"
TruncStart == ChunkStart(Len(chunks))

\* The last call pulled the preamble of the frame the stream ends in.
MetTruncated ==
    HasTruncated /\ Called /\ result.from <= TruncStart /\ TruncStart < result.end

\* The framing state in which the source runs out when the frame described
\* by f is cut after its first n bytes.
FramingStateAt(f, n) ==
    LET pdl == PayDescLen(f.eaf, f.timeTagtype)
        eal == IF f.eaf = 1 /\ f.authInd > 1 THEN EmbAuthBytes(f.embAuthLen) ELSE 0
    IN  IF n < 4 THEN "READ_FRAMESTART"
        ELSE IF n < 4 + pdl THEN "READ_PAYDESC"
        ELSE IF n < 4 + pdl + f.nData THEN "READ_PAYLOAD"
        ELSE IF n < 4 + pdl + f.nData + eal THEN "READ_EMBAUTH"
        ELSE "READ_CRC"

TruncState ==
    FramingStateAt(chunks[Len(chunks)].desc, Len(chunks[Len(chunks)].bytes))

\* C11: whenever the source is exhausted or returns fewer bytes than asked
\* for, at any point of framing (awaiting the preamble, framestart, payDesc,
\* payload, embAuth or CRC), read() of the later reader returns (None, None)
\* and raises no exception, for every quitonerror including 2.
C11_EofReturnsNone ==
    (Later /\ Called) =>
        /\ MetTruncated => IsEnd(result) /\ result.end = Len(stream)
        /\ result.from = Len(stream) => IsEnd(result) /\ result.end = Len(stream)

\* With quitonerror=2 read() of the later reader has met a frame cut one
\* byte short of its CRC and returned (None, None).
C11_Witness ==
    /\ Later /\ quitonerror = ERRRAISE /\ driver = "read"
    /\ MetTruncated /\ TruncState = "READ_CRC"
    /\ Len(chunks[Len(chunks)].bytes) = Len(FrameBytes(chunks[Len(chunks)].desc)) - 1
    /\ result.kind = "return" /\ result.raw = PyNone /\ result.parsed = PyNone

\* C12: end of stream in any framing state after AWAIT_PREAMBLE (a 0x73
\* preamble consumed, the last CRC byte not yet) produces a TruncatedFrame
\* error, reported as quitonerror says (raised, or passed to the handler),
\* which tells a truncated frame from a clean end of stream.
C12_TruncatedFrameReported ==
    (Later /\ MetTruncated) =>
        \E k \in DOMAIN trace.errs :
            /\ trace.errs[k].start = TruncStart
            /\ trace.errs[k].text.v[1] = "Truncated frame"
            /\ quitonerror # 0 => Surfaced(trace.errs[k].text)

(***************************************************************************)
(* C13.  Construction.                                                     *)
(***************************************************************************)
\* The constructor raised ParameterError: the caller has no reader.
ConstructionFailed == result.kind = "ParameterError" /\ driver = "no reader"

\* C13: constructing a reader with decryption enabled and no key available
\* (neither the key option nor MQTTKEY) fails with ParameterError; a reader
\* is never constructed with decrypt=true and key=None; with decryption
\* disabled, construction never fails for lack of a key.
C13_KeyRequired ==
    /\ (ctor.decrypt /\ ctor.key \in {"absent", None} /\ ctor.MQTTKEY = None)
           => ConstructionFailed
    /\ ~ConstructionFailed => ~(decrypt /\ key = None)
    /\ ~ctor.decrypt => ~ConstructionFailed

\* Construction with decrypt=True, no key option and MQTTKEY not set has
\* raised ParameterError.
C13_Witness ==
    /\ ctor.decrypt /\ ctor.key = "absent" /\ ctor.MQTTKEY = None
    /\ ConstructionFailed

(***************************************************************************)
(* C14, C15.  Order of delivery and termination.                           *)
(***************************************************************************)
\* C14: the frames returned by successive read() calls appear in strictly
\* increasing order of the source offsets of their preambles: no frame is
\* returned twice, returned frames do not overlap, and no later frame is
\* returned before an earlier returned one.
C14_FramesInOrder ==
    /\ \A j \in DOMAIN hist :
           IsPair(hist[j]) =>
               /\ hist[j].start < hist[j].end
               /\ stream[hist[j].start + 1] = SPARTN_PREB
               /\ hist[j].raw.v = SubSeq(stream, hist[j].start + 1, hist[j].end)
    /\ \A j, k \in DOMAIN hist :
           (j < k /\ IsPair(hist[j]) /\ IsPair(hist[k])) =>
               hist[j].end <= hist[k].start

\* Two successive read() calls of the later reader have returned two frames,
\* one after the other.
C14_Witness ==
    /\ Later /\ Len(hist) >= 2
    /\ IsPair(hist[1]) /\ IsPair(hist[2])
    /\ hist[1].start < hist[2].start

\* The reader is iterated: the later one by read() or __next__(), the
\* earlier one by iterate().
Iterating ==
    \/ Later /\ driver \in {"read", "next"}
    \/ ~Later /\ driver = "iterate"

\* The settings of quitonerror in force: the reader's own and, when the
\* reader is driven through iterate(), the one iterate() goes by.
QuitonerrorInForce ==
    {quitonerror} \cup
        (IF driver = "iterate" THEN {iterate_quitonerror(Self, kwargs)} ELSE {})

\* C15: for every finite source and quitonerror in {0, 1} (the reader's,
\* and the one iterate() was given if it was given one) iterating the
\* reader terminates: every call returns having consumed at least one byte
\* of the source or having hit its end, no exception ends the iteration
\* early, and the iteration stops (StopIteration) at the first read() that
\* returns (None, None), which happens only at the end of the source.
C15_Terminates ==
    (Iterating /\ QuitonerrorInForce \subseteq {0, ERRLOG} /\ Called) =>
        /\ ~IsRaise(result)
        /\ pos = result.end /\ pos <= Len(stream)
        /\ IF IsEnd(result) THEN result.end = Len(stream) ELSE result.end > result.from
        /\ driver \in {"next", "iterate"} =>
               /\ ~(result.kind \in {"return", "yield"} /\ result.raw.type = "NoneType")
               /\ stopped <=> \E j \in DOMAIN hist : hist[j].kind = "stop"
        /\ (driver = "iterate" /\ result.kind = "stop") => gen = "finished"

\* Iterating the later reader with quitonerror=1 has yielded a frame and
\* then stopped at the end of the source, having passed over errors.
C15_Witness ==
    /\ Later /\ driver = "next" /\ quitonerror = ERRLOG
    /\ Len(hist) = 2 /\ IsPair(hist[1])
    /\ result.kind = "stop" /\ stopped /\ pos = Len(stream)
    /\ trace.errs # <<>>

(***************************************************************************)
(* C16.  read() and the stateless parse().                                 *)
(***************************************************************************)
\* SPARTNReader.parse(raw) has been called on the frame read() returned.
Reparsed == reparsed # NoParse

\* C16 as stated: for every frame returned by read() as (raw_bytes, record),
\* for every reader configuration (validate, decrypt, key), parse(raw_bytes)
\* with its default options yields a record equal field by field to the
\* record returned by read().
C16_Original ==
    Reparsed => reparsed.ok /\ reparsed.value = result.parsed

\* The frame the last call returned is a frame of the stream whose
\* trailing CRC is right.
ReturnedCrcGood ==
    \E i \in DOMAIN chunks :
        IsFrame(i) /\ ChunkStart(i) = result.start /\ GoodCrc(i)

\* The bytes of a frame from which the initial counter is made: frame
\* start and payload descriptor.
HdrBytes(raw) == SubSeq(raw, 2, 4 + PayDescLen(HdrEaf(raw), HdrTimeTagtype(raw)))

\* C16 (amended): for a frame returned by read() whose trailing CRC is
\* right, parse(raw_bytes) with its default options yields a record of the
\* same message identity, equal field by field to the record returned by
\* read() whenever the reader does not decrypt or the frame is not
\* encrypted (eaf=0); for a frame with eaf=1 read by a decrypting reader,
\* read() gives the record of the decrypted payload and parse(raw_bytes)
\* that of the payload as it is on the wire.  A frame whose trailing CRC is
\* wrong is returned only by a reader with validate=0, and
\* parse(raw_bytes), which validates by default, raises InvalidCRC for it.
C16_ParseAgrees ==
    Reparsed =>
        IF ReturnedCrcGood
        THEN /\ reparsed.ok
             /\ reparsed.value.v.identity = result.parsed.v.identity
             /\ (~decrypt \/ HdrEaf(result.raw.v) = 0) => reparsed.value = result.parsed
             /\ (decrypt /\ HdrEaf(result.raw.v) = 1) =>
                    /\ reparsed.value.v.payload =
                           SubSeq(result.raw.v, Len(HdrBytes(result.raw.v)) + 2,
                                  Len(HdrBytes(result.raw.v)) + 1 + HdrNData(result.raw.v))
                    /\ result.parsed.v.payload =
                           decrypt_payload(reparsed.value.v.payload, key,
                                           InitialCounter(HdrBytes(result.raw.v)))
        ELSE /\ ~Validating
             /\ ~reparsed.ok /\ IsInvalidCRC(reparsed.value)

\* A reader that does not validate and does not decrypt has returned a
\* frame with eaf=1 and a payload, and parse(raw) has given the same record.
C16_Witness ==
    /\ Reparsed /\ ~decrypt /\ ~Validating
    /\ HdrEaf(result.raw.v) = 1 /\ HdrNData(result.raw.v) > 0
    /\ reparsed.ok /\ reparsed.value = result.parsed

(***************************************************************************)
(* C17.  Two readers.                                                      *)
(***************************************************************************)
\* The store in which the constructor is given a, and a stream object of
\* bytes s, and nothing else is made: one reader alone.
AloneStore(a, s) ==
    init([cls |-> EmptyDict, inst |-> <<EmptyDict>>, args |-> <<NoArgs>>,
          streams |-> << [bytes |-> s, pos |-> 0] >>, hist |-> << <<>> >>],
         1, 1, a)

\* That reader after n read() calls.
RECURSIVE RunAlone(_, _, _)
RunAlone(a, s, n) ==
    IF n = 0 THEN AloneStore(a, s) ELSE read_of(RunAlone(a, s, n - 1), 1).store

\* Instance i has been made.
Made(i) == store.args[i].made

\* The outcomes of instance i are outcomes on its own stream under the
\* options its own constructor was given: what it returned are bytes of
\* its stream, taken in order; it has raised only with quitonerror=2, has
\* reported an invalid CRC only with validate=1, and with quitonerror=2
\* has raised for a first byte that is no preamble.
OwnOutcomes(i) ==
    LET h == store.hist[i]
        s == store.streams[i].bytes
        a == store.args[i]
    IN  \A j \in DOMAIN h :
          /\ h[j].from = (IF j = 1 THEN 0 ELSE h[j - 1].end)
          /\ h[j].end <= Len(s)
          /\ IsPair(h[j]) => h[j].raw.v = SubSeq(s, h[j].start + 1, h[j].end)
          /\ IsRaise(h[j]) => a.quitonerror = ERRRAISE
          /\ (IsRaise(h[j]) /\ IsInvalidCRC(h[j].parsed)) => BitAnd1(a.validate) # 0
          /\ (a.quitonerror = ERRRAISE /\ h[j].from < Len(s)
                /\ s[h[j].from + 1] # SPARTN_PREB) =>
                 IsRaise(h[j]) /\ IsUnknownProtocol(h[j].parsed)
          /\ (a.quitonerror # ERRRAISE) => (IsPair(h[j]) \/ IsEnd(h[j]))

\* C17: two reader instances on separate streams share no mutable state:
\* for every order of making them and every interleaving of their read()
\* calls, each reader returns the sequence of results it returns when it
\* is made and run alone on its stream, its stream is where its own calls
\* left it, and its results go by its own stream and its own options.
C17_Independent ==
    \A i \in DOMAIN store.inst :
        Made(i) =>
            LET alone == RunAlone(store.args[i], store.streams[i].bytes,
                                  Len(store.hist[i]))
            IN  /\ store.hist[i] = alone.hist[1]
                /\ store.streams[i].pos = alone.streams[1].pos
                /\ attributes_of(store, i) = attributes_of(alone, 1)
                /\ OwnOutcomes(i)

\* Two readers with different settings of quitonerror and validate have
\* each made two read() calls on different streams, and one of them has
\* raised where the other returned a frame.
C17_Witness ==
    /\ DOMAIN store.inst = {1, 2} /\ Made(1) /\ Made(2)
    /\ Len(store.hist[1]) = 2 /\ Len(store.hist[2]) = 2
    /\ store.streams[1].bytes # store.streams[2].bytes
    /\ store.args[1].quitonerror # store.args[2].quitonerror
    /\ store.args[1].validate # store.args[2].validate
    /\ IsPair(store.hist[1][1]) /\ IsRaise(store.hist[2][1])

\* ---------------------------------------------------------------------
\* Payload schemas (spartntypes_get.py)
\* ---------------------------------------------------------------------

\* The meta-tokens imported from spartntypes_core.
NB == "NB"
NSAT == "NSAT"
NSATMASK == "NSATMASK"
NPHABIASMASK == "NPHABIASMASK"
NCODBIASMASK == "NCODBIASMASK"

\* The entries of a schema dictionary, in declaration order.  A plain field
\* is a key with a description; a conditional block is a key beginning with
\* opt with a tuple ((field, value or list of values), sub-schema); a
\* repeating group is a key beginning with group with a tuple (count source,
\* sub-schema).  The descriptions are left out.
Field(k) ==
    [kind |-> "field", key |-> k, pred |-> "", vals |-> {}, count |-> <<>>,
     body |-> <<>>]

Cond(k, f, v, sub) ==
    [kind |-> "opt", key |-> k, pred |-> f, vals |-> v, count |-> <<>>,
     body |-> sub]

Group(k, c, sub) ==
    [kind |-> "group", key |-> k, pred |-> "", vals |-> {}, count |-> c,
     body |-> sub]

OCB_HDR ==
  << Field("SF005"),
     Field("SF010"),
     Field("SF069"),
     Field("SF008"),
     Field("SF009") >>

HPAC_HDR ==
  << Field("SF005"),
     Field("SF068"),
     Field("SF069"),
     Field("SF030") >>

ORBCLK_BLOCK ==
  << Field("SF020R"),
     Field("SF020A"),
     Field("SF020C"),
     Field("SF021"),
     Field("SF022"),
     Field("SF020"),
     Field("SF024") >>

PHAS_BIAS_BLOCK ==
  << Field("SF023"),
     Field("SF015"),
     Field("SF020PB") >>

AREA_DATA_BLOCK ==
  << Field("SF031"),
     Field("SF039"),
     Field("SF040T"),
     Field("SF040i") >>

TROP_DATA_BLOCK ==
  << Cond("optSF040T-12", "SF040T", {1, 2},
       << Field("SF041"),
          Field("SF042"),
          Field("SF043"),
          Field("SF044"),
          Cond("optSF044-0", "SF044", {0},
            << Field("SF045"),
               Cond("optSF041-12", "SF041", {1, 2},
                 << Field("SF046a"),
                    Field("SF046b") >>),
               Cond("optSF041-2", "SF041", {2},
                 << Field("SF047") >>) >>),
          Cond("optSF044-1", "SF044", {1},
            << Field("SF048"),
               Cond("optSF041-12", "SF041", {1, 2},
                 << Field("SF049a"),
                    Field("SF049b") >>),
               Cond("optSF041-2", "SF041", {2},
                 << Field("SF050") >>) >>) >>),
     Cond("optSF040T-2", "SF040T", {2},
       << Field("SF051"),
          Cond("optSF051-0", "SF051", {0},
            << Field("SF052") >>),
          Cond("optSF051-1", "SF051", {1},
            << Field("SF053") >>) >>) >>

ION_SAT_BLOCK ==
  << Cond("optSF040I-12", "SF041I", {1, 2},
       << Field("SF055"),
          Field("SF056"),
          Cond("optSF064-0", "SF056", {0},
            << Field("SF057"),
               Cond("optSF054-12", "SF054", {1, 2},
                 << Field("SF058a"),
                    Field("SF058b") >>),
               Cond("optSF054-2", "SF054", {2},
                 << Field("SF059") >>) >>),
          Cond("optSF056-1", "SF056", {1},
            << Field("SF060"),
               Cond("optSF054-12", "SF045", {1, 2},
                 << Field("SF061a"),
                    Field("SF061b") >>),
               Cond("optSF054-2", "SF054", {2},
                 << Field("SF062") >>) >>) >>),
     Cond("optSF040I-2", "SF041I", {2},
       << Field("SF063"),
          Cond("optSF063-0", "SF063", {0},
            << Field("SF064") >>),
          Cond("optSF063-1", "SF063", {1},
            << Field("SF065") >>),
          Cond("optSF063-2", "SF063", {2},
            << Field("SF066") >>),
          Cond("optSF063-3", "SF063", {3},
            << Field("SF067") >>) >>) >>

SPARTN_1X_OCB_GPS ==
  OCB_HDR
  \o << Field("SF016"),
     Field(NSATMASK),
     Field("SF011"),
     Group("groupSat", <<NSAT>>,
       << Field("SF013"),
          Field("SF014"),
          Field("SF015"),
          Field("SF018") >>
       \o ORBCLK_BLOCK
       \o << Field(NPHABIASMASK),
          Field("SF025"),
          Group("groupSF025-BITS", <<"SF025", NB>>,
            PHAS_BIAS_BLOCK),
          Field(NCODBIASMASK),
          Field("SF027"),
          Group("groupSF027-BITS", <<"SF027", NB>>,
            << Field("SF029") >>) >>) >>

SPARTN_1X_OCB_GLO ==
  OCB_HDR
  \o << Field("SF017"),
     Field(NSATMASK),
     Field("SF012"),
     Group("groupSat", <<NSAT>>,
       << Field("SF013"),
          Field("SF014"),
          Field("SF015"),
          Field("SF019") >>
       \o ORBCLK_BLOCK
       \o << Field(NPHABIASMASK),
          Field("SF026"),
          Group("groupSF026-BITS", <<"SF026", NB>>,
            PHAS_BIAS_BLOCK),
          Field(NCODBIASMASK),
          Field("SF028"),
          Group("groupSF028-BITS", <<"SF028", NB>>,
            << Field("SF029") >>) >>) >>

SPARTN_1X_OCB_GAL ==
  OCB_HDR
  \o << Field("SF096"),
     Field(NSATMASK),
     Field("SF093"),
     Group("groupSat", <<NSAT>>,
       << Field("SF013"),
          Field("SF014"),
          Field("SF015"),
          Field("SF099") >>
       \o ORBCLK_BLOCK
       \o << Field(NPHABIASMASK),
          Field("SF0102"),
          Group("groupSF102-BITS", <<"SF102", NB>>,
            PHAS_BIAS_BLOCK),
          Field(NCODBIASMASK),
          Field("SF0105"),
          Group("groupSF105-BITS", <<"SF105", NB>>,
            << Field("SF029") >>) >>) >>

SPARTN_1X_OCB_BEI ==
  OCB_HDR
  \o << Field("SF097"),
     Field(NSATMASK),
     Field("SF094"),
     Group("groupSat", <<NSAT>>,
       << Field("SF013"),
          Field("SF014"),
          Field("SF015"),
          Field("SF0100") >>
       \o ORBCLK_BLOCK
       \o << Field(NPHABIASMASK),
          Field("SF0103"),
          Group("groupSF103-BITS", <<"SF103", NB>>,
            PHAS_BIAS_BLOCK),
          Field(NCODBIASMASK),
          Field("SF0106"),
          Group("groupSF106-BITS", <<"SF106", NB>>,
            << Field("SF029") >>) >>) >>

SPARTN_1X_OCB_QZS ==
  OCB_HDR
  \o << Field("SF098"),
     Field(NSATMASK),
     Field("SF095"),
     Group("groupSat", <<NSAT>>,
       << Field("SF013"),
          Field("SF014"),
          Field("SF015"),
          Field("SF0101") >>
       \o ORBCLK_BLOCK
       \o << Field(NPHABIASMASK),
          Field("SF0104"),
          Group("groupSF104-BITS", <<"SF104", NB>>,
            PHAS_BIAS_BLOCK),
          Field(NCODBIASMASK),
          Field("SF0107"),
          Group("groupSF107-BITS", <<"SF107", NB>>,
            << Field("SF029") >>) >>) >>

SPARTN_1X_HPAC_GPS ==
  HPAC_HDR
  \o << Group("groupAtm", <<"SF030">>,
       AREA_DATA_BLOCK
       \o TROP_DATA_BLOCK
       \o << Cond("optSF040I-12", "SF040I", {1, 2},
            << Field("SF054"),
               Field("SF011"),
               Group("groupSF011", <<NSAT>>,
                 ION_SAT_BLOCK) >>) >>) >>

SPARTN_1X_HPAC_GLO ==
  HPAC_HDR
  \o << Group("groupAtm", <<"SF030">>,
       AREA_DATA_BLOCK
       \o TROP_DATA_BLOCK
       \o << Cond("optSF040I-12", "SF040I", {1, 2},
            << Field("SF054"),
               Field("SF012"),
               Group("groupSF012", <<NSAT>>,
                 ION_SAT_BLOCK) >>) >>) >>

SPARTN_1X_HPAC_GAL ==
  HPAC_HDR
  \o << Group("groupAtm", <<"SF030">>,
       AREA_DATA_BLOCK
       \o TROP_DATA_BLOCK
       \o << Cond("optSF040I-12", "SF040I", {1, 2},
            << Field("SF054"),
               Field("SF093"),
               Group("groupSF093", <<NSAT>>,
                 ION_SAT_BLOCK) >>) >>) >>

SPARTN_1X_HPAC_BEI ==
  HPAC_HDR
  \o << Group("groupAtm", <<"SF030">>,
       AREA_DATA_BLOCK
       \o TROP_DATA_BLOCK
       \o << Cond("optSF040I-12", "SF040I", {1, 2},
            << Field("SF054"),
               Field("SF094"),
               Group("groupSF094", <<NSAT>>,
                 ION_SAT_BLOCK) >>) >>) >>

SPARTN_1X_HPAC_QZS ==
  HPAC_HDR
  \o << Group("groupAtm", <<"SF030">>,
       AREA_DATA_BLOCK
       \o TROP_DATA_BLOCK
       \o << Cond("optSF040I-12", "SF040I", {1, 2},
            << Field("SF054"),
               Field("SF095"),
               Group("groupSF095", <<NSAT>>,
                 ION_SAT_BLOCK) >>) >>) >>

SPARTN_1X_GAD ==
  << Field("SF005"),
     Field("SF068"),
     Field("SF069"),
     Field("SF030"),
     Group("group", <<"SF030">>,
       << Field("SF031"),
          Field("SF032"),
          Field("SF033"),
          Field("SF034"),
          Field("SF035"),
          Field("SF036"),
          Field("SF037") >>) >>

SPARTN_1X_BPAC ==
  << >>

SPARTN_1X_EAS_DYN ==
  << >>

SPARTN_1X_EAS_GRP ==
  << >>

SPARTN_PAYLOADS_GET ==
  ("SPARTN-1X-OCB-GPS" :> SPARTN_1X_OCB_GPS)
  @@ ("SPARTN-1X-OCB-GLO" :> SPARTN_1X_OCB_GLO)
  @@ ("SPARTN-1X-OCB-GAL" :> SPARTN_1X_OCB_GAL)
  @@ ("SPARTN-1X-OCB-BEI" :> SPARTN_1X_OCB_BEI)
  @@ ("SPARTN-1X-OCB-QZS" :> SPARTN_1X_OCB_QZS)
  @@ ("SPARTN-1X-HPAC-GPS" :> SPARTN_1X_HPAC_GPS)
  @@ ("SPARTN-1X-HPAC-GLO" :> SPARTN_1X_HPAC_GLO)
  @@ ("SPARTN-1X-HPAC-GAL" :> SPARTN_1X_HPAC_GAL)
  @@ ("SPARTN-1X-HPAC-BEI" :> SPARTN_1X_HPAC_BEI)
  @@ ("SPARTN-1X-HPAC-QZS" :> SPARTN_1X_HPAC_QZS)
  @@ ("SPARTN-1X-GAD" :> SPARTN_1X_GAD)
  @@ ("SPARTN-1X-BPAC" :> SPARTN_1X_BPAC)
  @@ ("SPARTN-1X-EAS-DYN" :> SPARTN_1X_EAS_DYN)
  @@ ("SPARTN-1X-EAS-GRP" :> SPARTN_1X_EAS_GRP)

\* A walk over one schema in declaration order.  The stack holds one frame
\* per scope that is open: the schema itself, then every conditional block
\* and repeating group entered and not yet left.  A frame holds the entries
\* of its scope, the index of the next entry and the keys of the plain
\* fields of the scope met so far.
Frame(k, sub) == [key |-> k, body |-> sub, i |-> 1, declared |-> {}]

Top == walk.stack[Len(walk.stack)]

AtEntry == walk.stack # <<>> /\ Top.i <= Len(Top.body)

Entry == Top.body[Top.i]

\* The plain fields declared before the current entry in its own scope or
\* in a scope that encloses it.
Visible == UNION {walk.stack[d].declared : d \in 1..Len(walk.stack)}

\* The keys of the scopes around the current entry, outermost first.
Path == [d \in 1..Len(walk.stack) |-> walk.stack[d].key]

InitSchema ==
    /\ walk \in {[schema |-> n, stack |-> <<Frame(n, SPARTN_PAYLOADS_GET[n])>>] :
                   n \in DOMAIN SPARTN_PAYLOADS_GET}
    /\ chunks = <<>>
    /\ stream = <<>>
    /\ pos = 0
    /\ variant = "later"
    /\ quitonerror = 0
    /\ validate = 0
    /\ errorhandler = FALSE
    /\ ctor = DefaultCtor
    /\ decrypt = init_decrypt(ctor)
    /\ key = init_key(ctor)
    /\ result = NoResult
    /\ reparsed = NoParse
    /\ store = NoStore
    /\ trace = EmptyTrace
    /\ log = <<>>
    /\ stdout = <<>>
    /\ hist = <<>>
    /\ stopped = FALSE
    /\ gen = "none"
    /\ kwargs = NoKwargs
    /\ driver = "schema"

Step(stack) ==
    /\ walk' = [walk EXCEPT !.stack = stack]
    /\ UNCHANGED <<stream, pos, variant, validate, quitonerror, errorhandler,
                   decrypt, key, result, trace, log, stdout, hist, stopped, gen,
                   kwargs, driver, ctor, reparsed, store, chunks>>

\* A plain field: it is declared in the scope that is open.
DeclareField ==
    /\ AtEntry /\ Entry.kind = "field"
    /\ Step([walk.stack EXCEPT ![Len(walk.stack)] =
                [@ EXCEPT !.i = @ + 1, !.declared = @ \cup {Entry.key}]])

\* A conditional block: its sub-schema opens a scope of its own.
EnterConditional ==
    /\ AtEntry /\ Entry.kind = "opt"
    /\ Step(Append(walk.stack, Frame(Entry.key, Entry.body)))

\* A repeating group: its sub-schema opens a scope of its own.
EnterGroup ==
    /\ AtEntry /\ Entry.kind = "group"
    /\ Step(Append(walk.stack, Frame(Entry.key, Entry.body)))

\* The end of a sub-schema: its scope closes, and the walk goes on after
\* the block in the scope around it.
LeaveBlock ==
    /\ Len(walk.stack) > 1 /\ ~AtEntry
    /\ Step([SubSeq(walk.stack, 1, Len(walk.stack) - 1)
                EXCEPT ![Len(walk.stack) - 1] = [@ EXCEPT !.i = @ + 1]])

NextSchema == DeclareField \/ EnterConditional \/ EnterGroup \/ LeaveBlock

SpecSchema == InitSchema /\ [][NextSchema]_vars

\* C18: in every payload schema of SPARTN_PAYLOADS_GET, the field named by
\* the predicate of a conditional block (key beginning with opt) is the key
\* of a plain field declared before the block, in declaration order, in the
\* scope of the block or in a scope that encloses it.
C18_PredicateDeclared ==
    (AtEntry /\ Entry.kind = "opt") => Entry.pred \in Visible

\* ---------------------------------------------------------------------
\* Frames over the whole range of the header fields
\* ---------------------------------------------------------------------

\* Frames of every payload descriptor length, CRC type and embedded
\* authentication length code, with payloads of 0, 1 and 1023 bytes; authInd
\* and embAuthLen are on the wire only if eaf=1.
WideFrameDescs ==
    { f \in { FrameDesc(0, n, e, c, t, a, l, 171, TRUE) :
                n \in {0, 1, 1023}, e \in {0, 1}, c \in 0..3, t \in {0, 1},
                a \in {0, 1, 2, 7}, l \in 0..7 } :
        IF f.eaf = 1 THEN f.authInd # 0 ELSE f.authInd = 0 /\ f.embAuthLen = 0 }

\* The frame with CRC bytes of zero (for readers that do not validate).
WideFrameBytes(f) == <<SPARTN_PREB>> \o FrameCore(f) \o Fill(f.crcType + 1, 0)

\* One frame followed by as many bytes of zero as the longest embedded
\* authentication data a reader may pull, so that no reader meets the end
\* of the source inside the frame.  (The readers run with quitonerror=2,
\* iterate() is called without options, and so they stop at the first of
\* these bytes.)
WideChunkSeqs ==
    { << [kind |-> "frame", desc |-> f, bytes |-> WideFrameBytes(f)],
         [kind |-> "garbage", desc |-> NoDesc, bytes |-> Fill(aln_earlier(7), 0)] >> :
      f \in WideFrameDescs }

InitFrame ==
    /\ chunks \in WideChunkSeqs
    /\ stream = StreamOf(chunks)
    /\ pos = 0
    /\ variant \in {"later", "earlier"}
    /\ quitonerror = ERRRAISE
    /\ validate = 0
    /\ errorhandler = FALSE
    /\ ctor = DefaultCtor
    /\ decrypt = init_decrypt(ctor)
    /\ key = init_key(ctor)
    /\ result = NoResult
    /\ reparsed = NoParse
    /\ store = NoStore
    /\ walk = NoWalk
    /\ trace = EmptyTrace
    /\ log = <<>>
    /\ stdout = <<>>
    /\ hist = <<>>
    /\ stopped = FALSE
    /\ gen = "none"
    /\ kwargs = NoKwargs
    /\ driver = "none"

NextFrame == Read \/ Next_ \/ ReadEarlier \/ NextEarlier \/ IterateWith(NoKwargs)

SpecFrame == InitFrame /\ [][NextFrame]_vars

\* The frames the last call pulled whole.
Delimited == {trace.handed[k] : k \in DOMAIN trace.handed}

\* C19: every frame delimited by the later reader has a payload descriptor
\* of 4, 6 or 8 bytes, a payload of nData bytes with nData in 0..1023,
\* embedded authentication data of 0, 8, 12, 16, 32 or 64 bytes and a CRC
\* of 1 to 4 bytes, and so is at most 1+3+8+1023+64+4 bytes long.
C19_WireRanges ==
    variant = "later" =>
        \A h \in Delimited :
            /\ Len(h.parts.payDesc) \in {4, 6, 8}
            /\ h.parts.payload = bitsval(h.raw, 15, 10)
            /\ h.parts.payload \in 0..1023
            /\ h.parts.embAuth \in {0, 8, 12, 16, 32, 64}
            /\ h.parts.crc \in 1..4
            /\ Len(h.raw) = 1 + 3 + Len(h.parts.payDesc) + h.parts.payload
                            + h.parts.embAuth + h.parts.crc
            /\ Len(h.raw) <= 1 + 3 + 8 + 1023 + 64 + 4

\* The later reader has delimited a frame of the greatest length: payload
\* descriptor of 8 bytes, 1023 bytes of payload, 64 bytes of embedded
\* authentication data and 4 CRC bytes.
C19_Witness ==
    /\ variant = "later"
    /\ \E h \in Delimited :
           /\ Len(h.parts.payDesc) = 8 /\ h.parts.payload = 1023
           /\ h.parts.embAuth = 64 /\ h.parts.crc = 4
           /\ Len(h.raw) = 1 + 3 + 8 + 1023 + 64 + 4

\* What the two variants of _parse_spartn pull from the source after the
\* preamble at offset start.
PartsLater(start) == parse_spartn(Self, stream, start + 1, <<SPARTN_PREB>>).parts
PartsEarlier(start) == parse_spartn_earlier(stream, start + 1, <<SPARTN_PREB>>).parts

\* C20: for every combination of eaf and timeTagtype the earlier and the
\* later reader pull the same payload descriptor, of 4 + 2*timeTagtype +
\* 2*eaf bytes, and with eaf=1 read the same authInd and embAuthLen from
\* it: the ones the frame carries at bits gtlen+26 and gtlen+29.
C20_SamePayDesc ==
    \A h \in Delimited :
        h.start = 0 =>
            LET f == chunks[1].desc
                pl == PartsLater(h.start)
                pe == PartsEarlier(h.start)
            IN  /\ Len(h.parts.payDesc) = 4 + 2 * f.timeTagtype + 2 * f.eaf
                /\ pl.payDesc = pe.payDesc
                /\ h.parts.payDesc = pl.payDesc
                /\ f.eaf = 1 =>
                       /\ pl.authInd = pe.authInd /\ pl.embAuthLen = pe.embAuthLen
                       /\ h.parts.authInd = f.authInd
                       /\ h.parts.embAuthLen = f.embAuthLen

\* The earlier reader has delimited a frame with eaf=1 and timeTagtype=1,
\* pulling a payload descriptor of 8 bytes and reading authInd=7 and
\* embAuthLen=2 from it.
C20_Witness ==
    /\ variant = "earlier"
    /\ chunks[1].desc.eaf = 1 /\ chunks[1].desc.timeTagtype = 1
    /\ \E h \in Delimited :
           /\ h.start = 0 /\ Len(h.parts.payDesc) = 8
           /\ h.parts.authInd = 7 /\ h.parts.embAuthLen = 2

\* The bits at the place of authInd, counted from the start of the payload
\* descriptor, in the bytes that follow the frame start of frame h.
BitsAtAuthInd(h) ==
    LET gtlen == IF bitsval(h.raw, 36, 1) # 0 THEN 32 ELSE 16
    IN  bitsval(SubSeq(h.raw, 5, Len(h.raw)), gtlen + 26, 3)

\* C21: the later reader pulls embedded authentication data only if eaf=1
\* and authInd > 1, and then 8, 12, 16, 32 or 64 bytes for embAuthLen 0 to 4
\* and none for embAuthLen 5 to 7; with eaf=0 it pulls none, whatever bits
\* stand at the place of authInd.
C21_EmbAuthPulled ==
    variant = "later" =>
        \A h \in Delimited :
            h.start = 0 =>
                LET f == chunks[1].desc
                IN  h.parts.embAuth =
                        IF f.eaf = 1 /\ f.authInd > 1
                        THEN CASE f.embAuthLen = 0 -> 8
                               [] f.embAuthLen = 1 -> 12
                               [] f.embAuthLen = 2 -> 16
                               [] f.embAuthLen = 3 -> 32
                               [] f.embAuthLen = 4 -> 64
                               [] OTHER -> 0
                        ELSE 0

\* The later reader has delimited a frame with eaf=0 whose bytes at the
\* place of authInd read 5, and pulled no embedded authentication data.
C21_Witness ==
    /\ variant = "later"
    /\ chunks[1].desc.eaf = 0
    /\ \E h \in Delimited :
           /\ h.start = 0 /\ h.parts.payload = 1023
           /\ BitsAtAuthInd(h) = 5 /\ h.parts.embAuth = 0

\* ---------------------------------------------------------------------
\* C22.  What the CRC check is given
\* ---------------------------------------------------------------------

\* A frame without its preamble and its trailing crcType+1 bytes, and those
\* trailing bytes.
CoveredBytes(raw) == SubSeq(raw, 2, Len(raw) - (HdrCrcType(raw) + 1))
TrailingCrc(raw) == SubSeq(raw, Len(raw) - HdrCrcType(raw), Len(raw))

\* The last call met an InvalidCRC error for the frame that begins at
\* offset start.
InvalidCRCAt(start) ==
    \E k \in DOMAIN trace.errs :
        trace.errs[k].start = start /\ IsInvalidCRC(trace.errs[k].text)

\* C22: with validate=1 the later reader rejects a frame with InvalidCRC if
\* and only if the trailing crcType+1 bytes, as a big-endian unsigned
\* integer, differ from the CRC of the algorithm selected by crcType over
\* framestart ++ payDesc ++ payload ++ embAuth, the frame without its
\* preamble and without the CRC bytes; the error names that integer.
C22_CrcInput ==
    (Later /\ Validating) =>
        \A i \in DOMAIN chunks :
            (IsFrame(i) /\ Covers(i)) =>
                LET raw == chunks[i].bytes
                    expected == int_from_bytes_big(TrailingCrc(raw))
                IN  /\ InvalidCRCAt(ChunkStart(i)) <=>
                           expected # int_from_bytes_big(
                                          CrcBytes(CoveredBytes(raw), HdrCrcType(raw)))
                    /\ \A k \in DOMAIN trace.errs :
                           (trace.errs[k].start = ChunkStart(i)
                               /\ IsInvalidCRC(trace.errs[k].text)) =>
                               /\ trace.errs[k].text = PyStr(<<"Invalid CRC", expected>>)
                               /\ trace.errs[k].raw = raw

\* With validate=1 the later reader has accepted a frame with three CRC
\* bytes (CRC-24Q) and 8 bytes of embedded authentication data.
C22_Witness ==
    /\ Later /\ Validating
    /\ \E i \in DOMAIN chunks :
           /\ IsFrame(i) /\ Covers(i) /\ ReturnedAsPair(i)
           /\ HdrCrcType(chunks[i].bytes) = 2
           /\ Len(TrailingCrc(chunks[i].bytes)) = 3
           /\ Len(CoveredBytes(chunks[i].bytes)) = 3 + 6 + 1 + 8

\* ---------------------------------------------------------------------
\* C23.  A byte that is not a preamble
\* ---------------------------------------------------------------------

\* Offset o of the stream lies in a chunk of bytes none of which is 0x73.
InGarbage(o) ==
    \E i \in DOMAIN chunks :
        chunks[i].kind = "garbage" /\ ChunkStart(i) <= o /\ o < ChunkEnd(i)

\* The UnknownProtocol errors the last call met for the byte at offset o.
UnknownProtocolAt(o) ==
    { k \in DOMAIN trace.errs :
        trace.errs[k].start = o /\ IsUnknownProtocol(trace.errs[k].text) }

\* C23: when the byte read while awaiting a preamble is not 0x73, the later
\* reader discards exactly that byte, produces one UnknownProtocol error
\* that names it, and goes on with the byte that follows: the next error or
\* frame of the call begins there, and so does the next call if the error
\* was raised.
C23_OneByteDiscarded ==
    (Later /\ Called) =>
        /\ \A o \in result.from..(result.end - 1) :
               InGarbage(o) => Cardinality(UnknownProtocolAt(o)) = 1
        /\ \A k \in DOMAIN trace.errs :
               IsUnknownProtocol(trace.errs[k].text) =>
                   LET e == trace.errs[k]
                   IN  /\ e.end = e.start + 1
                       /\ stream[e.end] # SPARTN_PREB
                       /\ e.text = PyStr(<<"Unknown protocol", <<stream[e.end]>> >>)
                       /\ e.raw = <<stream[e.end]>>
                       /\ IF k < Len(trace.errs) THEN trace.errs[k + 1].start = e.end
                          ELSE IF IsRaise(result) THEN result.end = e.end
                          ELSE result.start = e.end

\* One read() of the later reader with quitonerror=0 has discarded three
\* bytes other than 0x73 one by one and returned the frame that begins at
\* the fourth byte.
C23_Witness ==
    /\ Later /\ quitonerror = 0 /\ Len(hist) = 1
    /\ Len(trace.errs) = 3
    /\ \A k \in 1..3 : IsUnknownProtocol(trace.errs[k].text) /\ trace.errs[k].end = k
    /\ IsPair(result) /\ result.start = 3

\* ---------------------------------------------------------------------
\* C24.  Where the header fields are extracted
\* ---------------------------------------------------------------------

\* The transport layout: the fields of framestart and of the payload
\* descriptor in order, each with its width in bits.
FramestartLayout ==
    << <<"msgType", 7>>, <<"nData", 10>>, <<"eaf", 1>>, <<"crcType", 2>>,
       <<"frameCrc", 4>> >>

PayDescLayout(gtlen) ==
    << <<"msgSubtype", 4>>, <<"timeTagtype", 1>>, <<"gnssTimeTag", gtlen>>,
       <<"solutionId", 7>>, <<"solutionProcId", 4>>, <<"encryptionId", 4>>,
       <<"encryptionSeq", 6>>, <<"authInd", 3>>, <<"embAuthLen", 3>> >>

LayoutOf(field, gtlen) ==
    IF \E i \in DOMAIN FramestartLayout : FramestartLayout[i][1] = field
    THEN FramestartLayout
    ELSE PayDescLayout(gtlen)

IndexIn(layout, field) == CHOOSE i \in DOMAIN layout : layout[i][1] = field

\* The sum of the widths of the first n fields of a layout.
RECURSIVE WidthsBefore(_, _)
WidthsBefore(layout, n) ==
    IF n = 0 THEN 0 ELSE WidthsBefore(layout, n - 1) + layout[n][2]

\* C24: both readers extract each header field at the bit offset that is
\* the sum of the widths of the fields before it in the transport layout
\* (nData at framestart bit 7, eaf at 17, crcType at 18, timeTagtype at
\* payDesc bit 4, authInd and embAuthLen at gtlen+26 and gtlen+29), with
\* its width, from bytes already pulled, for every combination of eaf and
\* timeTagtype; so the values they get are the ones the frame carries.
C24_FieldOffsets ==
    \A h \in Delimited :
        h.start = 0 =>
            LET f == chunks[1].desc
                gtlen == IF f.timeTagtype = 1 THEN 32 ELSE 16
            IN  /\ {"nData", "eaf", "crcType", "timeTagtype"}
                       \subseteq {e.field : e \in h.parts.reads}
                /\ f.eaf = 1 =>
                       {"authInd", "embAuthLen"} \subseteq {e.field : e \in h.parts.reads}
                /\ \A e \in h.parts.reads :
                       LET layout == LayoutOf(e.field, gtlen)
                           i == IndexIn(layout, e.field)
                       IN  /\ e.at = WidthsBefore(layout, i - 1)
                           /\ e.width = layout[i][2]
                           /\ e.at + e.width <= e.of
                /\ h.parts.payload = f.nData
                /\ h.parts.crc = f.crcType + 1
                /\ Len(h.parts.payDesc) = PayDescLen(f.eaf, f.timeTagtype)
                /\ f.eaf = 1 =>
                       h.parts.authInd = f.authInd /\ h.parts.embAuthLen = f.embAuthLen

\* The later reader has delimited a frame with eaf=1 and timeTagtype=1,
\* extracting authInd at bit 58 and embAuthLen at bit 61 of the 64 bits of
\* the payload descriptor.
C24_Witness ==
    /\ variant = "later"
    /\ \E h \in Delimited :
           /\ h.start = 0
           /\ [field |-> "authInd", at |-> 58, width |-> 3, of |-> 64] \in h.parts.reads
           /\ [field |-> "embAuthLen", at |-> 61, width |-> 3, of |-> 64] \in h.parts.reads
           /\ [field |-> "nData", at |-> 7, width |-> 10, of |-> 24] \in h.parts.reads

\* ---------------------------------------------------------------------
\* C25.  After a rejected frame
\* ---------------------------------------------------------------------

\* Error k of the last call is the rejection of a whole frame: InvalidCRC
\* or an error of the payload interpreter.
IsRejection(k) == ~IsUnknownProtocol(trace.errs[k].text)

\* The offsets at which the last call looked for a preamble: where its
\* errors began and where what it returned began.
SearchedAt == {trace.errs[k].start : k \in DOMAIN trace.errs} \cup {result.start}

\* C25: in the later reader with quitonerror in {0, 1}, after a frame is
\* rejected (CRC mismatch or error of the interpreter) the same read()
\* goes on looking for a preamble at the first byte after the CRC bytes of
\* that frame: no byte inside the rejected frame is examined as a preamble.
C25_ResumeAfterRejected ==
    (Later /\ quitonerror \in {0, ERRLOG} /\ Called) =>
        \A k \in DOMAIN trace.errs :
            IsRejection(k) =>
                LET e == trace.errs[k]
                IN  /\ e.raw = SubSeq(stream, e.start + 1, e.end)
                    /\ Len(e.raw) = FrameLen(e.raw)
                    /\ IF k < Len(trace.errs) THEN trace.errs[k + 1].start = e.end
                       ELSE result.start = e.end
                    /\ \A o \in SearchedAt : ~(e.start < o /\ o < e.end)

\* One read() of the later reader with quitonerror=0 has rejected a frame
\* with a wrong CRC whose payload is the byte 0x73, and returned the frame
\* that follows its CRC bytes.
C25_Witness ==
    /\ Later /\ quitonerror = 0 /\ Validating /\ Len(hist) = 1 /\ Len(chunks) = 2
    /\ Len(trace.errs) = 1 /\ IsInvalidCRC(trace.errs[1].text)
    /\ trace.errs[1].start = 0 /\ trace.errs[1].end = ChunkEnd(1)
    /\ SPARTN_PREB \in Range(SubSeq(chunks[1].bytes, 2, Len(chunks[1].bytes)))
    /\ IsPair(result) /\ result.start = ChunkEnd(1)

\* ---------------------------------------------------------------------
\* C26.  What read() returns begins with the preamble
\* ---------------------------------------------------------------------

\* C26: in the later reader every pair returned by read() whose first
\* element is not None has raw_bytes that begin with the preamble 0x73 and
\* are the bytes of the source from a preamble on; no byte of the source
\* outside a frame that begins with 0x73 is returned to the caller.
C26_RawBeginsWithPreamble ==
    Later => \A j \in DOMAIN hist :
        (hist[j].kind = "return" /\ hist[j].raw.type = "bytes") =>
            LET raw == hist[j].raw.v
            IN  /\ raw # <<>> /\ raw[1] = SPARTN_PREB
                /\ stream[hist[j].start + 1] = SPARTN_PREB
                /\ raw = SubSeq(stream, hist[j].start + 1, hist[j].start + Len(raw))
                /\ \A o \in hist[j].start..(hist[j].start + Len(raw) - 1) : ~InGarbage(o)

\* With quitonerror=1 the later reader has passed over three bytes other
\* than 0x73 and returned the frame that follows, which begins with 0x73.
C26_Witness ==
    /\ Later /\ quitonerror = ERRLOG /\ driver = "read" /\ Len(hist) = 1
    /\ Len(chunks) = 2 /\ chunks[1].kind = "garbage" /\ Len(chunks[1].bytes) = 3
    /\ result.raw.type = "bytes" /\ result.raw.v[1] = SPARTN_PREB
    /\ result.start = 3

\* ---------------------------------------------------------------------
\* C27.  Count sources of repeating groups
\* ---------------------------------------------------------------------

\* The field a repeating group takes its count from, when its count source
\* is a field identifier or a tuple (field identifier, NB).
CountsByField(e) == e.kind = "group" /\ e.count # <<NSAT>>

\* C27: in every payload schema of SPARTN_PAYLOADS_GET, the field named by
\* the count source of a repeating group (a field identifier, or the first
\* element of a tuple (field, NB)) is the key of a plain field declared
\* before the group, in declaration order, in the scope of the group or in
\* a scope that encloses it.
C27_CountSourceDeclared ==
    (AtEntry /\ CountsByField(Entry)) => Entry.count[1] \in Visible

\* ---------------------------------------------------------------------
\* C28.  read() after it has raised
\* ---------------------------------------------------------------------

\* Call j raised for the byte or the frame at which chunk i begins, and
\* consumed exactly that byte or that frame.
RaisedFor(j, i) ==
    /\ IsRaise(hist[j]) /\ hist[j].start = hist[j].from
    /\ hist[j].end = IF IsFrame(i) THEN ChunkEnd(i) ELSE hist[j].from + 1

\* C28: after read() of the later reader has raised under quitonerror=2
\* the reader is still usable: the next read() starts at the first byte of
\* the source not yet consumed (after the offending byte, or after the CRC
\* bytes of the rejected frame), no byte is consumed twice, and a valid
\* frame that follows is returned.
C28_UsableAfterRaise ==
    (Later /\ quitonerror = ERRRAISE) =>
        /\ \A j \in DOMAIN hist :
               /\ hist[j].from = (IF j = 1 THEN 0 ELSE hist[j - 1].end)
               /\ hist[j].from <= hist[j].end
               /\ IsRaise(hist[j]) =>
                      \E i \in DOMAIN chunks :
                          /\ ChunkStart(i) <= hist[j].from /\ hist[j].from < ChunkEnd(i)
                          /\ RaisedFor(j, i)
        /\ pos = (IF hist = <<>> THEN 0 ELSE hist[Len(hist)].end)
        /\ \A j \in DOMAIN hist : \A i \in DOMAIN chunks :
               (j > 1 /\ IsRaise(hist[j - 1]) /\ hist[j].from = ChunkStart(i)
                   /\ IsFrame(i) /\ ~Rejected(i)) =>
                   /\ IsPair(hist[j]) /\ hist[j].raw.v = chunks[i].bytes
                   /\ hist[j].end = ChunkEnd(i)

\* With quitonerror=2 the first read() has raised InvalidCRC for a frame
\* and the second has returned the valid frame that follows it.
C28_Witness ==
    /\ Later /\ quitonerror = ERRRAISE /\ Validating /\ driver = "read"
    /\ Len(hist) = 2 /\ Len(chunks) = 2
    /\ IsRaise(hist[1]) /\ IsInvalidCRC(hist[1].parsed) /\ hist[1].end = ChunkEnd(1)
    /\ IsPair(hist[2]) /\ hist[2].from = ChunkEnd(1) /\ hist[2].raw.v = chunks[2].bytes

\* ---------------------------------------------------------------------
\* C29.  The header checksum frameCrc
\* ---------------------------------------------------------------------

\* Frames of every CRC type with every value of the 4-bit frameCrc.
HdrFrameDescs ==
    { [f EXCEPT !.frameCrc = x] :
        f \in { FrameDesc(0, 1, 0, 0, 0, 0, 0, 171, TRUE),
                FrameDesc(0, 1, 1, 2, 0, 2, 0, 115, TRUE),
                FrameDesc(2, 0, 1, 3, 1, 2, 1, 7, TRUE),
                FrameDesc(1, 0, 1, 1, 0, 1, 4, 0, TRUE) },
        x \in 0..15 }

\* The frame described by f, sealed with the CRC of its own bytes, or else
\* with the CRC of the frame that differs from it only in that its frameCrc
\* is zero.
HdrFrameBytes(f, sealed) ==
    IF sealed THEN FrameBytes(f)
    ELSE <<SPARTN_PREB>> \o FrameCore(f)
         \o CrcBytes(FrameCore([f EXCEPT !.frameCrc = 0]), f.crcType)

HdrChunkSeqs ==
    { << [kind |-> "frame",
          desc |-> [f EXCEPT !.crcOK = sealed \/ f.frameCrc = 0],
          bytes |-> HdrFrameBytes(f, sealed)] >> :
      f \in HdrFrameDescs, sealed \in BOOLEAN }

InitHdr ==
    /\ chunks \in HdrChunkSeqs
    /\ stream = StreamOf(chunks)
    /\ pos = 0
    /\ variant \in {"later", "earlier"}
    /\ quitonerror \in {0, ERRRAISE}
    /\ validate \in {0, VALCRC}
    /\ errorhandler = FALSE
    /\ ctor = DefaultCtor
    /\ decrypt = init_decrypt(ctor)
    /\ key = init_key(ctor)
    /\ result = NoResult
    /\ reparsed = NoParse
    /\ store = NoStore
    /\ walk = NoWalk
    /\ trace = EmptyTrace
    /\ log = <<>>
    /\ stdout = <<>>
    /\ hist = <<>>
    /\ stopped = FALSE
    /\ gen = "none"
    /\ kwargs = NoKwargs
    /\ driver = "none"

SpecHdr == InitHdr /\ [][Next]_vars

\* The trailing CRC bytes of a frame are the CRC of the bytes they cover.
CrcMatches(raw) == TrailingCrc(raw) = CrcBytes(CoveredBytes(raw), HdrCrcType(raw))

\* C29: the later reader does not check the header checksum frameCrc.
\* Whatever frameCrc is, the frame is delimited by nData, eaf and crcType
\* (the first call ends at the frame's last byte); with validate=0 it is
\* accepted, so two frames that differ only in frameCrc are both accepted;
\* with validate=1 it is accepted if and only if its trailing CRC is the
\* CRC of the bytes covered, frameCrc among them.
C29_FrameCrcUnchecked ==
    (Later /\ hist # <<>>) =>
        LET raw == chunks[1].bytes
            first == hist[1]
        IN  /\ first.end = Len(raw)
            /\ IsPair(first) <=> (Validating => CrcMatches(raw))
            /\ IsPair(first) => first.raw.v = raw

\* With validate=0 the later reader has returned a frame whose frameCrc is
\* 5 and whose trailing CRC is that of the same frame with frameCrc zero.
C29_Witness ==
    /\ Later /\ ~Validating /\ Len(hist) = 1
    /\ chunks[1].desc.frameCrc = 5 /\ ~chunks[1].desc.crcOK
    /\ bitsval(result.raw.v, 28, 4) = 5
    /\ IsPair(result) /\ result.raw.v = chunks[1].bytes

=============================================================================
